---------------------------- MODULE Spec2Model ----------------------------
(***************************************************************************)
(* F1-Hawkeye: the asynchronous persistence writer                         *)
(* (src/src/database/data_writer.py, TelemetryDataWriter) and the          *)
(* telemetry state aggregator (src/src/packet_processing/                  *)
(* packet_management.py) as state machines.                                *)
(*                                                                         *)
(* Time is counted in ticks of one second (flush_interval = 1.0 s).  The   *)
(* 0.1 s poll of queue.get and the timeouts of stop() are shorter or       *)
(* longer than any bound the code gives on the worker's progress, so they  *)
(* expire nondeterministically.                                            *)
(***************************************************************************)
EXTENDS Integers, Sequences, FiniteSets, TLC

(***************************************************************************)
(* Bounds of the model.                                                    *)
(***************************************************************************)
QueueCap == 1
    \* stands for queue.Queue(maxsize=10000)
BatchSize == 2
    \* stands for batch_size (default 100)
MaxEvents == 2
    \* queue_* calls made in one behaviour
MaxWorkers == 2
    \* worker threads created by start() in one behaviour
MaxSessions == 1
    \* sessions created by create_session in one behaviour

NumSlots == 2
    \* stands for the 22 driver slots
MaxPackets == 3
    \* packets handled by the aggregator in one behaviour

FlushInterval == 1
    \* flush_interval, in seconds
DefaultBatchSize == 100
    \* batch_size as __init__ defaults it
QueueMaxSize == 10000
    \* queue.Queue(maxsize=10000)
ScenarioEvents == 250
    \* events of the burst of scenario E

None == 0
    \* Python's None for current_session_id and worker_thread
Absent == -1
    \* an attribute the object does not have yet (hasattr is false)

WorkerIds == 1..MaxWorkers

VARIABLES
    maxsize,              \* self.write_queue.maxsize
    batch_size,           \* self.batch_size
    write_queue,          \* self.write_queue: the items waiting, oldest first
    running,              \* self.running
    worker_thread,        \* self.worker_thread: the thread start() created last
    current_session_id,   \* self.current_session_id
    workers,              \* per thread of _worker_loop: pc, batch, time since last_flush
    stop_pc,              \* where the caller of stop() is
    sessions_created,     \* rows of SessionModel committed by create_session
    sink,                 \* batches the durable sink committed, in commit order
    handed,               \* batches passed to _flush_batch, in call order
    lost,                 \* ids of the items of batches whose commit failed
    dequeued,             \* the items taken off the queue, by whom, and for the first
                          \* of them how long after last_flush
    calls,                \* outcome of the n-th queue_* call, n = 1, 2, ...
    warnings,             \* "Queue full, dropping" warnings printed
    report                \* what the last stop() printed

wvars == <<maxsize, batch_size, write_queue, running, worker_thread, current_session_id, workers,
           stop_pc, sessions_created, sink, handed, lost, dequeued, calls,
           warnings, report>>

VARIABLES
    session,              \* variables.session, the Session object
    PLAYERS_LIST,         \* variables.PLAYERS_LIST, the Player objects by slot
    escaped,              \* the last handler call ended with an exception
    raised,               \* the writer calls of the last handler call that raised
    reference,            \* what the last handler call leaves when no writer call raises
    lap,                  \* the last update_lap_data call, when no other handler ran since
    last_handler,         \* the handler called last
    handled,              \* packets received and handled so far
    emitted,              \* the writer calls of the last handler call, in call order
    event_total,          \* per slot, the total damage of the last queue_damage_event
                          \* call that returned, 0 before the first
    event_lap,            \* per slot, the lap number of the last writer call for the
                          \* slot's driver that returned, Absent before the first
    table_fresh,          \* no handler was called since the lap table was last sorted
    lights                \* code: the event code update_event was last called with;
                          \* since: start lights (STLG, 2 lights or more) were
                          \* received after the last lights out (LGOT) before it

avars == <<session, PLAYERS_LIST, escaped, raised, reference, lap, last_handler, handled,
           emitted, event_total, event_lap, table_fresh, lights>>

VARIABLES
    sorted_players_list,  \* LapTableModel.sorted_players_list, slot indexes in table order
    lap_table_data,       \* LapTableModel._data, the slot index of each row
    packet_reception_dict,\* MainWindow.packet_reception_dict, by packet id
    last_update,          \* MainWindow.last_update
    displayed,            \* the counts PacketReceptionTableModel._data shows, by packet id
    now                   \* time.time(), in ticks

uvars == <<sorted_players_list, lap_table_data, packet_reception_dict, last_update, displayed, now>>

VARIABLES
    socket_running,       \* SocketThread.running
    socket_pc,            \* where SocketThread.run is: "test", "get" or "done"
    socket_stop,          \* where SocketThread.stop is: "idle", "wait" or "returned"
    received,             \* the number of datagrams listener.get() has returned
    signals               \* data_received emitted and not yet delivered: packet ids

rvars == <<socket_running, socket_pc, socket_stop, received, signals>>

VARIABLES
    dispatch_error        \* what update_table raised for a packet of no known type

dvars == <<dispatch_error>>

VARIABLES
    recording,            \* the bytes of the file TelemetryRecorder writes
    recorded,             \* the datagrams the recorder wrote as whole records, in order
    recorder_pc,          \* where TelemetryRecorder.start is: "recording" or "stopped"
    player,               \* TelemetryPlayer.play_once: its position, its locals, what it sent
    playback              \* PlaybackThread: running, paused, and play_once as for player

pvars == <<recording, recorded, recorder_pc, player, playback>>

VARIABLES
    imported_records,     \* CSVImporter.imported_records
    import_session_id     \* session_id of import_lap_csv, None before it is created

ivars == <<imported_records, import_session_id>>

yvars == <<pvars, ivars>>

xvars == <<rvars, dvars, yvars>>

vars == <<wvars, avars, uvars, xvars>>

(***************************************************************************)
(* Helpers on sequences.                                                   *)
(***************************************************************************)
RECURSIVE Flatten(_)
Flatten(ss) == IF ss = <<>> THEN <<>> ELSE Head(ss) \o Flatten(Tail(ss))

Range(s) == {s[i] : i \in DOMAIN s}

Ids(items) == [i \in DOMAIN items |-> items[i].data.id]

NumCalls == Len(calls)


(***************************************************************************)
(* TelemetryDataWriter.__init__                                            *)
(***************************************************************************)
NewWorker == [pc |-> "unborn", batch |-> <<>>, elapsed |-> 0]

\* The fields __init__ sets, for a queue of `cap` items and batches of `size`.
Constructed(cap, size) ==
    /\ maxsize = cap
    /\ batch_size = size
    /\ write_queue = <<>>
    /\ running = FALSE
    /\ worker_thread = None
    /\ current_session_id = None
    /\ workers = [w \in WorkerIds |-> NewWorker]
    /\ stop_pc = "idle"
    /\ sessions_created = 0
    /\ sink = <<>>
    /\ handed = <<>>
    /\ lost = {}
    /\ dequeued = <<>>
    /\ calls = <<>>
    /\ warnings = 0
    /\ report = [kind |-> "none", remaining |-> 0]

(***************************************************************************)
(* The producer side: create_session and the queue_* methods.              *)
(***************************************************************************)
\* create_session, the commit succeeding.  When db_manager.get_session or the
\* commit raises, the method leaves every field as it was (a stuttering step).
CreateSession ==
    /\ sessions_created < MaxSessions
    /\ sessions_created' = sessions_created + 1
    /\ current_session_id' = sessions_created + 1
    /\ UNCHANGED <<avars, uvars, xvars, maxsize, batch_size, write_queue, running, worker_thread, workers,
                   stop_pc, sink,
                   handed, lost, dequeued, calls, warnings, report>>

\* A put that waits for a free slot instead of put_nowait.
QueueWriteBlocking(data_type, data) ==
    /\ Len(write_queue) < maxsize
    /\ write_queue' = Append(write_queue, [data |-> data])
    /\ calls' = Append(calls, "accepted")
    /\ UNCHANGED warnings

\* _queue_write: put_nowait, and queue.Full caught with a warning.  The item's
\* 'type' only selects the model class in _create_model and its 'timestamp'
\* is never read: the queued item is its data.
QueueWrite(data_type, data) ==
    IF Len(write_queue) < maxsize
    THEN /\ write_queue' = Append(write_queue, [data |-> data])
         /\ calls' = Append(calls, "accepted")
         /\ UNCHANGED warnings
    ELSE /\ warnings' = warnings + 1
         /\ calls' = Append(calls, "dropped")
         /\ UNCHANGED write_queue

\* The guard every queue_* method opens with, left out.
QueueCallNoGuard(data_type) ==
    /\ QueueWrite(data_type,
                  [session_id |-> current_session_id, id |-> NumCalls + 1])
    /\ UNCHANGED <<avars, uvars, xvars, maxsize, batch_size, running, worker_thread, current_session_id,
                   workers, stop_pc, sessions_created, sink, handed, lost, dequeued,
                   report>>

\* The body the six queue_* methods share: nothing without a session, else
\* the payload tagged with current_session_id goes to _queue_write.  The
\* payload is its call's ordinal.
QueueCall(data_type) ==
    /\ IF current_session_id = None
       THEN /\ calls' = Append(calls, "nosession")
            /\ UNCHANGED <<write_queue, warnings>>
       ELSE QueueWrite(data_type,
                       [session_id |-> current_session_id, id |-> NumCalls + 1])
    /\ UNCHANGED <<avars, uvars, xvars, maxsize, batch_size, running, worker_thread, current_session_id,
                   workers, stop_pc, sessions_created, sink, handed, lost, dequeued,
                   report>>

queue_lap == QueueCall("lap")
queue_telemetry == QueueCall("telemetry")
queue_tyre_data == QueueCall("tyre")
queue_damage_event == QueueCall("damage")
queue_pit_stop == QueueCall("pitstop")
queue_weather_sample == QueueCall("weather")

Producer ==
    \/ queue_lap
    \/ queue_telemetry
    \/ queue_tyre_data
    \/ queue_damage_event
    \/ queue_pit_stop
    \/ queue_weather_sample


(***************************************************************************)
(* start() and stop(timeout), called from the application's main thread.   *)
(***************************************************************************)
Unborn == {w \in WorkerIds : workers[w].pc = "unborn"}

\* start(): a no-op while running, else a new thread running _worker_loop,
\* whose first statements are batch = [] and last_flush = time.time().
Start ==
    /\ stop_pc = "idle"
    /\ ~running
    /\ Unborn # {}
    /\ LET w == CHOOSE x \in Unborn : \A y \in Unborn : x <= y IN
         /\ running' = TRUE
         /\ worker_thread' = w
         /\ workers' = [workers EXCEPT ![w] =
                           [pc |-> "loop", batch |-> <<>>, elapsed |-> 0]]
    /\ UNCHANGED <<avars, uvars, xvars, maxsize, batch_size, write_queue, current_session_id, stop_pc,
                   sessions_created,
                   sink, handed, lost, dequeued, calls, warnings, report>>

\* stop(), lines 85-88: return at once when not running, else running = False.
StopBegin ==
    /\ stop_pc = "idle"
    /\ running
    /\ running' = FALSE
    /\ stop_pc' = "waiting"
    /\ UNCHANGED <<avars, uvars, xvars, maxsize, batch_size, write_queue, worker_thread,
                   current_session_id, workers,
                   sessions_created, sink, handed, lost, dequeued, calls, warnings, report>>

\* What stop() prints from remaining = qsize().
StopMessage(remaining) ==
    IF remaining > 0
    THEN [kind |-> "pending", remaining |-> remaining]
    ELSE [kind |-> "flushed", remaining |-> 0]

\* stop(), lines 90-102: the wait ends when the queue is empty or the timeout
\* has passed, the join when the thread has ended or its 1.0 s have passed,
\* then the queue's size is read and reported.
StopReturn ==
    /\ stop_pc = "waiting"
    /\ \E wait_timed_out, join_timed_out \in BOOLEAN :
         /\ write_queue = <<>> \/ wait_timed_out
         /\ \/ worker_thread = None
            \/ workers[worker_thread].pc = "done"
            \/ join_timed_out
    /\ report' = StopMessage(Len(write_queue))
    /\ stop_pc' = "idle"
    /\ UNCHANGED <<avars, uvars, xvars, maxsize, batch_size, write_queue, running, worker_thread,
                   current_session_id, workers, sessions_created, sink, handed, lost, dequeued, calls,
                   warnings>>

(***************************************************************************)
(* _worker_loop and _flush_batch, one thread per start().  A call of       *)
(* _flush_batch is one step: the batch is handed over and the commit       *)
(* either succeeds or raises inside it.                                    *)
(***************************************************************************)
\* should_flush with > for >= on the batch's length.
ShouldFlushOffByOne(batch, elapsed) ==
    Len(batch) > batch_size \/ elapsed >= FlushInterval

\* should_flush, line 227
ShouldFlush(batch, elapsed) ==
    Len(batch) >= batch_size \/ elapsed >= FlushInterval

\* _flush_batch failing with its exception reaching _worker_loop, which ends.
FlushRaises(w, batch, next_pc) ==
    /\ workers' = [workers EXCEPT ![w].batch = <<>>, ![w].pc = "crashed"]
    /\ handed' = Append(handed, [by |-> w, ids |-> Ids(batch), final |-> next_pc = "done"])
    /\ lost' = lost \cup Range(Ids(batch))
    /\ UNCHANGED sink

\* _flush_batch, the commit raising: the except clause prints and returns,
\* and the caller goes on with batch = [] and last_flush = time.time().
FlushFails(w, batch, next_pc) ==
    /\ workers' = [workers EXCEPT ![w].batch = <<>>, ![w].elapsed = 0,
                                  ![w].pc = next_pc]
    /\ handed' = Append(handed, [by |-> w, ids |-> Ids(batch), final |-> next_pc = "done"])
    /\ lost' = lost \cup Range(Ids(batch))
    /\ UNCHANGED sink

\* _flush_batch, the commit succeeding: the items are added in batch order.
FlushCommits(w, batch, next_pc) ==
    /\ workers' = [workers EXCEPT ![w].batch = <<>>, ![w].elapsed = 0,
                                  ![w].pc = next_pc]
    /\ handed' = Append(handed, [by |-> w, ids |-> Ids(batch), final |-> next_pc = "done"])
    /\ sink' = Append(sink, Ids(batch))
    /\ UNCHANGED lost

\* _flush_batch(batch) and the statements after it.
FlushBatch(w, batch, next_pc) ==
    \/ FlushCommits(w, batch, next_pc)
    \/ FlushFails(w, batch, next_pc)

\* The loop's step with an item (lines 223-235): get, append, and flush when
\* should_flush.
WorkerGet(w) ==
    /\ workers[w].pc = "loop"
    /\ running \/ write_queue # <<>>
    /\ write_queue # <<>>
    /\ LET batch == Append(workers[w].batch, Head(write_queue)) IN
         /\ write_queue' = Tail(write_queue)
         /\ dequeued' = Append(dequeued,
                               [id |-> Head(write_queue).data.id, by |-> w,
                                idle |-> IF dequeued = <<>> THEN workers[w].elapsed
                                                            ELSE 0])
         /\ IF ShouldFlush(batch, workers[w].elapsed)
            THEN FlushBatch(w, batch, "loop")
            ELSE /\ workers' = [workers EXCEPT ![w].batch = batch]
                 /\ UNCHANGED <<handed, sink, lost>>
    /\ UNCHANGED <<avars, uvars, xvars, maxsize, batch_size, running, worker_thread, current_session_id,
                   stop_pc, sessions_created, calls, warnings, report>>

\* The queue.Empty branch flushing full batches only.
WorkerEmptySizeOnly(w) ==
    /\ workers[w].pc = "loop"
    /\ running
    /\ write_queue = <<>>
    /\ Len(workers[w].batch) >= batch_size
    /\ FlushBatch(w, workers[w].batch, "loop")
    /\ UNCHANGED <<avars, uvars, xvars, maxsize, batch_size, write_queue, dequeued, running, worker_thread,
                   current_session_id, stop_pc, sessions_created, calls, warnings,
                   report>>

\* get(timeout=0.1) raising queue.Empty (lines 237-242): the partial batch is
\* flushed when flush_interval has passed since last_flush.
WorkerEmpty(w) ==
    /\ workers[w].pc = "loop"
    /\ running
    /\ write_queue = <<>>
    /\ workers[w].batch # <<>>
    /\ workers[w].elapsed >= FlushInterval
    /\ FlushBatch(w, workers[w].batch, "loop")
    /\ UNCHANGED <<avars, uvars, xvars, maxsize, batch_size, write_queue, dequeued, running, worker_thread,
                   current_session_id, stop_pc, sessions_created, calls, warnings,
                   report>>

\* The thread ending without its final flush.
WorkerExitNoFinalFlush(w) ==
    /\ workers[w].pc = "loop"
    /\ ~running
    /\ write_queue = <<>>
    /\ workers' = [workers EXCEPT ![w].pc = "done", ![w].batch = <<>>]
    /\ UNCHANGED <<avars, uvars, xvars, maxsize, batch_size, write_queue, dequeued, running, worker_thread,
                   current_session_id, stop_pc, sessions_created, calls, warnings,
                   report, handed, sink, lost>>

\* The loop's condition found false (lines 220, 244-248): the final flush of
\* a non-empty batch, and the thread ends.
WorkerExit(w) ==
    /\ workers[w].pc = "loop"
    /\ ~running
    /\ write_queue = <<>>
    /\ IF workers[w].batch # <<>>
       THEN FlushBatch(w, workers[w].batch, "done")
       ELSE /\ workers' = [workers EXCEPT ![w].pc = "done"]
            /\ UNCHANGED <<handed, sink, lost>>
    /\ UNCHANGED <<avars, uvars, xvars, maxsize, batch_size, write_queue, dequeued, running, worker_thread,
                   current_session_id, stop_pc, sessions_created, calls, warnings,
                   report>>

Worker(w) ==
    \/ WorkerGet(w)
    \/ WorkerEmpty(w)
    \/ WorkerExit(w)

\* One second passes: every worker in its loop is one second further from
\* its last_flush (counted up to flush_interval, all the loop compares with).
Tick ==
    /\ \E w \in WorkerIds : workers[w].pc = "loop" /\ workers[w].elapsed < FlushInterval
    /\ workers' = [w \in WorkerIds |->
                     IF workers[w].pc = "loop" /\ workers[w].elapsed < FlushInterval
                     THEN [workers[w] EXCEPT !.elapsed = @ + 1]
                     ELSE workers[w]]
    /\ UNCHANGED <<avars, uvars, xvars, maxsize, batch_size, write_queue, dequeued, running, worker_thread,
                   current_session_id, stop_pc, sessions_created, sink, handed,
                   lost, calls, warnings, report>>

(***************************************************************************)
(* The live model: variables.session and variables.PLAYERS_LIST as         *)
(* Session() and Player() construct them.  Times the code holds in seconds *)
(* (currentSectors, lastLapSectors, bestLapSectors) are held here in       *)
(* thousandths of a second, and the '%.2f' strings of the tyre wear in     *)
(* hundredths.  Fields no modelled handler reads or writes are left out.   *)
(***************************************************************************)
Slots == 0..(NumSlots - 1)

Tyres == 1..4

\* Player.__init__
NewPlayer ==
    [position |-> 1,
     tyre_wear |-> [t \in Tyres |-> 0],
     tyre_wear_on_last_lap |-> [t \in Tyres |-> 0],
     tyre_wear_before_last_lap |-> [t \in Tyres |-> 0],
     tyres |-> 0,
     tyresAgeLaps |-> 0,
     frontLeftWingDamage |-> 0,
     frontRightWingDamage |-> 0,
     rearWingDamage |-> 0,
     floorDamage |-> 0,
     diffuserDamage |-> 0,
     sidepodDamage |-> 0,
     lastLapTime |-> 0,
     currentSectors |-> <<0, 0, 0>>,
     lastLapSectors |-> <<0, 0, 0>>,
     bestLapSectors |-> <<0, 0, 0>>,
     bestLapTime |-> 0,
     yourTelemetry |-> 0,
     speed |-> 0,
     S200_reached |-> TRUE,
     speedTrapSpeed |-> 0,
     speedTrapPosition |-> -1,
     hasRetired |-> FALSE,
     last_damage_total |-> Absent]

\* Player.reset
reset(joueur) ==
    [joueur EXCEPT !.S200_reached = FALSE,
                   !.lastLapSectors = <<0, 0, 0>>,
                   !.bestLapSectors = <<0, 0, 0>>,
                   !.lastLapTime = 0,
                   !.currentSectors = <<0, 0, 0>>,
                   !.bestLapTime = 0]

\* Session.__init__
NewSession ==
    [nbLaps |-> 0,
     currentLap |-> 0,
     tour_precedent |-> 0,
     Session |-> 0,
     track |-> -1,
     idxBestLapTime |-> -1,
     bestLapTime |-> 5000,
     weatherList |-> <<>>,
     formationLapDone |-> FALSE,
     last_weather_sample_time |-> Absent]

NoLap == [packet |-> <<>>, new_laps |-> {}, repeat |-> FALSE, before |-> {}]

\* variables.py: PLAYERS_LIST and session as the module creates them, before
\* any packet.
ModelConstructed ==
    /\ session = NewSession
    /\ PLAYERS_LIST = [index \in Slots |-> NewPlayer]
    /\ escaped = FALSE
    /\ raised = {}
    /\ reference = [session |-> NewSession, players |-> [index \in Slots |-> NewPlayer]]
    /\ lap = NoLap
    /\ last_handler = "none"
    /\ handled = 0
    /\ emitted = <<>>
    /\ event_total = [index \in Slots |-> 0]
    /\ event_lap = [index \in Slots |-> Absent]
    /\ table_fresh = TRUE
    /\ lights = [code |-> "", since |-> FALSE]

(***************************************************************************)
(* The writer: producer, main thread, workers and the clock.               *)
(***************************************************************************)
(***************************************************************************)
(* The window: the lap table and the packet reception monitor.  Time is    *)
(* counted in ticks, TicksPerSecond to the second.                         *)
(***************************************************************************)
\* Player.__lt__
Lt(self, other) ==
    IF self.position = 0
    THEN FALSE
    ELSE self.position < other.position

\* list.sort comparing two entries of a list of slot indexes
ISLT(players, x, y) == Lt(players[x], players[y])

RECURSIVE RunLength(_, _, _, _)
\* list.sort counting the run the list starts with: list[1..n] is one, and
\* it goes on while each entry is less than the one before it (descending)
\* or not less (otherwise).
RunLength(players, list, n, descending) ==
    IF n = Len(list)
    THEN n
    ELSE IF ISLT(players, list[n + 1], list[n]) = descending
    THEN RunLength(players, list, n + 1, descending)
    ELSE n

\* list.sort reversing a descending run of length n
ReverseRun(list, n) ==
    [k \in 1..Len(list) |-> IF k <= n THEN list[n + 1 - k] ELSE list[k]]

RECURSIVE BinarySearch(_, _, _, _, _)
\* list.sort finding where pivot goes in the sorted list[l..r-1]
BinarySearch(players, list, pivot, l, r) ==
    IF l >= r
    THEN l
    ELSE LET p == l + ((r - l) \div 2)
         IN  IF ISLT(players, pivot, list[p])
             THEN BinarySearch(players, list, pivot, l, p)
             ELSE BinarySearch(players, list, pivot, p + 1, r)

RECURSIVE BinarySort(_, _, _)
\* list.sort inserting list[start..] one by one into the sorted list[1..start-1]
BinarySort(players, list, start) ==
    IF start > Len(list)
    THEN list
    ELSE LET pivot == list[start]
             l == BinarySearch(players, list, pivot, 1, start)
         IN  BinarySort(players,
                        [k \in 1..Len(list) |->
                            IF k < l \/ k > start THEN list[k]
                            ELSE IF k = l THEN pivot
                            ELSE list[k - 1]],
                        start + 1)

\* In slot order, the indexes of the slots of players.
SlotOrder(players) ==
    [k \in 1..Cardinality(DOMAIN players) |-> k - 1]

\* sorted(PLAYERS_LIST): list.sort of a list shorter than 64, which is one
\* run extended by binary insertion.
sorted(players) ==
    LET list == SlotOrder(players)
    IN  IF Len(list) < 2
        THEN list
        ELSE LET descending == ISLT(players, list[2], list[1])
                 n == RunLength(players, list, 2, descending)
             IN  BinarySort(players,
                            IF descending THEN ReverseRun(list, n) ELSE list,
                            n + 1)

RECURSIVE Rows(_, _)
\* The rows of the lap table: the entries of list whose player has a position
Rows(list, players) ==
    IF list = <<>>
    THEN <<>>
    ELSE IF players[Head(list)].position # 0
    THEN <<Head(list)>> \o Rows(Tail(list), players)
    ELSE Rows(Tail(list), players)

TicksPerSecond == 2

\* The clock when the window is constructed: more than a second after 0.
StartTime == TicksPerSecond + 1

PacketIds == 0..15

\* MainWindow.__init__ and LapTableModel.__init__
WindowConstructed ==
    /\ sorted_players_list = sorted([index \in Slots |-> NewPlayer])
    /\ lap_table_data = Rows(SlotOrder([index \in Slots |-> NewPlayer]),
                             [index \in Slots |-> NewPlayer])
    /\ packet_reception_dict = [id \in PacketIds |-> 0]
    /\ last_update = 0
    /\ displayed = [id \in PacketIds |-> 0]
    /\ now = StartTime

\* SocketThread.__init__ and the start() of main_window.py line 73
SocketConstructed ==
    /\ socket_running = TRUE
    /\ socket_pc = "test"
    /\ socket_stop = "idle"
    /\ received = 0
    /\ signals = <<>>

\* TelemetryRecorder.start with its file opened (line 51), TelemetryPlayer
\* and PlaybackThread (lines 19-28) constructed, play_once not yet called.
ReplayConstructed ==
    /\ recording = <<>>
    /\ recorded = <<>>
    /\ recorder_pc = "recording"
    /\ player = [pc |-> "idle", f |-> 0, packets_sent |-> 0, sent |-> <<>>]
    /\ playback = [running |-> TRUE, paused |-> FALSE, pc |-> "idle", f |-> 0,
                   packets_sent |-> 0, packet_data |-> <<>>, sent |-> <<>>]

\* CSVImporter.__init__
ImporterConstructed ==
    /\ imported_records = 0
    /\ import_session_id = None

RestConstructed ==
    /\ SocketConstructed
    /\ dispatch_error = "none"
    /\ ReplayConstructed
    /\ ImporterConstructed

Init ==
    /\ Constructed(QueueCap, BatchSize)
    /\ ModelConstructed
    /\ WindowConstructed
    /\ RestConstructed

Next ==
    \/ CreateSession
    \/ NumCalls < MaxEvents /\ Producer
    \/ Start
    \/ StopBegin
    \/ StopReturn
    \/ \E w \in WorkerIds : Worker(w)
    \/ Tick

Spec == Init /\ [][Next]_vars

\* Every started thread keeps being scheduled, and time keeps passing.
LiveSpec ==
    /\ Spec
    /\ WF_vars(Tick)
    /\ \A w \in WorkerIds : WF_vars(Worker(w))

(***************************************************************************)
(* What the histories say.                                                 *)
(***************************************************************************)
Accepted == {n \in 1..NumCalls : calls[n] = "accepted"}
HandedSeq == Flatten([i \in DOMAIN handed |-> handed[i].ids])
HandedIds == Range(HandedSeq)
SinkIds == Range(Flatten(sink))
QueueIds == Range(Ids(write_queue))
BatchIds(w) == Range(Ids(workers[w].batch))
DequeuedBy(w) == {dequeued[i].id : i \in {j \in DOMAIN dequeued : dequeued[j].by = w}}
Last(s) == s[Len(s)]
IsQueueCall == NumCalls' = NumCalls + 1
StopReturns == stop_pc = "waiting" /\ stop_pc' = "idle"

(***************************************************************************)
(* C1: a queue_* call never blocks: every one of the six is enabled in     *)
(* every reachable state, the queue never holds more than its capacity,    *)
(* and a call made on a full queue leaves the queue as it was, with one    *)
(* more warning.                                                           *)
(***************************************************************************)
C1_CanCall ==
    /\ ENABLED queue_lap
    /\ ENABLED queue_telemetry
    /\ ENABLED queue_tyre_data
    /\ ENABLED queue_damage_event
    /\ ENABLED queue_pit_stop
    /\ ENABLED queue_weather_sample

C1_FullQueueDrops ==
    (IsQueueCall /\ Len(write_queue) = maxsize)
        => /\ write_queue' = write_queue
           /\ warnings' = warnings + 1
           /\ Last(calls') = "dropped"

C1_NeverBlocksNeverExceeds ==
    /\ [](C1_CanCall /\ Len(write_queue) <= maxsize)
    /\ [][C1_FullQueueDrops]_vars

\* A call was dropped on a full queue while no worker was taking items.
C1_Witness ==
    /\ Len(write_queue) = maxsize
    /\ \E n \in 1..NumCalls : calls[n] = "dropped"
    /\ \A w \in WorkerIds : workers[w].pc # "loop"

(***************************************************************************)
(* C2: while current_session_id is None a queue_* call leaves the queue    *)
(* unchanged, and the payload of such a call is never on the queue, in a   *)
(* batch, or handed to the sink.                                           *)
(***************************************************************************)
NoSessionCalls == {n \in 1..NumCalls : calls[n] = "nosession"}

C2_Discards ==
    (IsQueueCall /\ current_session_id = None)
        => /\ write_queue' = write_queue
           /\ Last(calls') = "nosession"

C2_NothingOfIt ==
    /\ NoSessionCalls \cap (QueueIds \cup HandedIds \cup SinkIds) = {}
    /\ \A w \in WorkerIds : NoSessionCalls \cap BatchIds(w) = {}
    /\ \A i \in DOMAIN write_queue : write_queue[i].data.session_id # None
    /\ current_session_id = None => write_queue = <<>> /\ handed = <<>>

C2_NoEventBeforeSession ==
    /\ []C2_NothingOfIt
    /\ [][C2_Discards]_vars

\* A call was discarded for want of a session, and a later one was committed.
C2_Witness ==
    /\ NoSessionCalls # {}
    /\ SinkIds # {}

(***************************************************************************)
(* C3: accepted events reach the sink in the order of their enqueuing: the *)
(* ids handed to _flush_batch, batch after batch, are increasing, and an   *)
(* event is handed only after every accepted event enqueued before it.     *)
(***************************************************************************)
C3_FifoToSink ==
    /\ \A i, j \in DOMAIN HandedSeq : i < j => HandedSeq[i] < HandedSeq[j]
    /\ \A b \in HandedIds : \A a \in Accepted : a < b => a \in HandedIds

(***************************************************************************)
(* C4: a worker's batch is flushed in the loop only when it has reached    *)
(* batch_size or flush_interval has passed since the last flush, it never  *)
(* holds more than batch_size items, and a non-empty batch of a worker in  *)
(* its loop is eventually flushed.                                         *)
(***************************************************************************)
C4_BatchBounded ==
    /\ \A w \in WorkerIds : Len(workers[w].batch) < batch_size
    /\ \A i \in DOMAIN handed : Len(handed[i].ids) <= batch_size

C4_FlushWhenDue ==
    (handed' # handed /\ ~Last(handed').final)
        => /\ handed' = Append(handed, Last(handed'))
           /\ \/ Len(Last(handed').ids) = batch_size
              \/ workers[Last(handed').by].elapsed >= FlushInterval

C4_BatchCommitted ==
    /\ []C4_BatchBounded
    /\ [][C4_FlushWhenDue]_vars
    /\ \A w \in WorkerIds :
         (workers[w].pc = "loop" /\ workers[w].batch # <<>>)
             ~> (workers[w].batch = <<>>)

\* A worker still in its loop has flushed a partial batch, the interval
\* having passed, and holds nothing.
C4_Witness ==
    \E i \in DOMAIN handed :
        /\ ~handed[i].final
        /\ handed[i].ids # <<>>
        /\ Len(handed[i].ids) < batch_size
        /\ workers[handed[i].by].pc = "loop"
        /\ workers[handed[i].by].batch = <<>>

(***************************************************************************)
(* C6: when a worker thread has ended, every event it took off the queue   *)
(* has been passed to _flush_batch by it.                                  *)
(***************************************************************************)
HandedBy(w) ==
    Range(Flatten([i \in DOMAIN handed |->
                      IF handed[i].by = w THEN handed[i].ids ELSE <<>>]))

C6_TerminatedWorkerFlushedAll ==
    \A w \in WorkerIds :
        workers[w].pc = "done" => DequeuedBy(w) \subseteq HandedBy(w)

\* A worker drained the queue after stop() and ended with a final flush.
C6_Witness ==
    \E w \in WorkerIds :
        /\ workers[w].pc = "done"
        /\ \E i \in DOMAIN handed : handed[i].by = w /\ handed[i].final

(***************************************************************************)
(* C7: when stop() returns, every accepted event has been passed to        *)
(* _flush_batch or is counted in the pending writes it reports, and it     *)
(* reports the queue flushed only when every accepted event is committed.  *)
(***************************************************************************)
C7_AtReturn ==
    /\ Cardinality(Accepted \ HandedIds) <= report.remaining
    /\ report.kind = "flushed" => Accepted \subseteq SinkIds

C7_StopReportsAllUnpersisted == [][StopReturns => C7_AtReturn']_vars

(***************************************************************************)
(* C8: a failed commit stays inside the worker: the thread goes on as      *)
(* after a successful flush, the failed batch is neither put back on the   *)
(* queue nor committed later, no producer-side field changes, and later    *)
(* batches are committed.                                                  *)
(***************************************************************************)
C8_FailureStep ==
    lost' # lost
        => /\ LET w == Last(handed').by IN
                /\ workers'[w].pc = IF Last(handed').final THEN "done" ELSE "loop"
                /\ workers'[w].batch = <<>>
                /\ workers'[w].elapsed = 0
           /\ handed' = Append(handed, Last(handed'))
           /\ lost' = lost \cup Range(Last(handed').ids)
           /\ sink' = sink
           /\ \/ write_queue' = write_queue
              \/ write_queue # <<>> /\ write_queue' = Tail(write_queue)
           /\ UNCHANGED <<calls, warnings, current_session_id, running>>

C8_CommitStep ==
    sink' # sink => sink' = Append(sink, Last(handed').ids)

C8_FailedBatchGone ==
    /\ lost \cap SinkIds = {}
    /\ lost \cap QueueIds = {}
    /\ \A w \in WorkerIds : lost \cap BatchIds(w) = {}
    /\ \A w \in WorkerIds : workers[w].pc \in {"unborn", "loop", "done"}

C8_SinkFailureIsLocal ==
    /\ []C8_FailedBatchGone
    /\ [][C8_FailureStep /\ C8_CommitStep]_vars

\* A batch failed in the loop and an event dequeued after it was committed.
C8_Witness ==
    \E n \in lost : \E m \in SinkIds : n < m

(***************************************************************************)
(* Scenario E: a writer constructed with batch_size = 100 and              *)
(* flush_interval = 1 s, started, with a session, on which ScenarioEvents  *)
(* events are enqueued with no time between them.  Time passes while the   *)
(* writer idles before the burst and after the worker has drained it, not  *)
(* in between.                                                             *)
(***************************************************************************)
ScenarioEInit ==
    /\ maxsize = QueueMaxSize
    /\ batch_size = DefaultBatchSize
    /\ write_queue = <<>>
    /\ running = TRUE
    /\ worker_thread = 1
    /\ current_session_id = 1
    /\ WindowConstructed
    /\ RestConstructed
    /\ workers = [w \in WorkerIds |->
                    IF w = 1 THEN [pc |-> "loop", batch |-> <<>>, elapsed |-> 0]
                    ELSE NewWorker]
    /\ stop_pc = "idle"
    /\ sessions_created = 1
    /\ sink = <<>>
    /\ handed = <<>>
    /\ lost = {}
    /\ dequeued = <<>>
    /\ calls = <<>>
    /\ warnings = 0
    /\ report = [kind |-> "none", remaining |-> 0]
    /\ ModelConstructed

BurstDrained == NumCalls = ScenarioEvents /\ write_queue = <<>>

ScenarioENext ==
    \/ NumCalls < ScenarioEvents /\ queue_lap
    \/ \E w \in WorkerIds : WorkerGet(w)
    \/ \E w \in WorkerIds : WorkerEmpty(w)
    \/ (NumCalls = 0 \/ BurstDrained) /\ Tick

SpecE == ScenarioEInit /\ [][ScenarioENext]_vars

(***************************************************************************)
(* C5: once the burst is drained there have been exactly two flushes, each *)
(* of batch_size events, and the other ScenarioEvents - 2 * batch_size     *)
(* events stay in the worker's batch, uncommitted, until a flush that      *)
(* happens only when flush_interval has passed.                            *)
(***************************************************************************)
Remainder == ScenarioEvents - 2 * batch_size

C5_TwoFullBatches ==
    BurstDrained =>
        /\ Len(handed) \in {2, 3}
        /\ Len(handed[1].ids) = batch_size
        /\ Len(handed[2].ids) = batch_size
        /\ Len(handed) = 2 =>
              /\ Len(workers[1].batch) = Remainder
              /\ BatchIds(1) \cap (SinkIds \cup lost) = {}
        /\ Len(handed) = 3 =>
              /\ Len(handed[3].ids) = Remainder
              /\ workers[1].batch = <<>>

C5_PendingUntilInterval ==
    (BurstDrained /\ Len(handed) = 2 /\ Len(handed') = 3)
        => workers[1].elapsed >= FlushInterval

\* C5 as claimed: from any state of the started writer.
C5_ScenarioE ==
    /\ []C5_TwoFullBatches
    /\ [][C5_PendingUntilInterval]_vars

\* The burst starts before flush_interval has passed since the worker
\* started or last flushed.
BurstStartsInTime == dequeued # <<>> => dequeued[1].idle < FlushInterval

\* C5 as amended: for a burst that starts in time.
C5_ScenarioEInTime ==
    /\ [](BurstStartsInTime => C5_TwoFullBatches)
    /\ [][BurstStartsInTime => C5_PendingUntilInterval]_vars

\* The burst is drained, two full batches are flushed, the rest is pending.
C5_Witness ==
    /\ BurstDrained
    /\ BurstStartsInTime
    /\ Len(handed) = 2
    /\ Len(workers[1].batch) = Remainder


(***************************************************************************)
(* The aggregator, packet_management.py: one operator per handler, from    *)
(* the live model and a packet to the live model it leaves and the writer  *)
(* calls it makes, in call order.  fault tells which writer calls raise.   *)
(***************************************************************************)
Model == [session |-> session, players |-> PLAYERS_LIST]

\* The writer raising on every call of a handler call, or on none.
Faults == {[index \in Slots |-> down] : down \in BOOLEAN}

NoFault == [index \in Slots |-> FALSE]

\* A writer call outside any try: its exception leaves the handler.
BareCall(fault) == [completed |-> ~fault, escaped |-> fault]

\* try: <writer call> except Exception: pass (lines 38-52, 74-88, 119-145,
\* 232-262, 275-297, 313-349)
TryCall(fault) == [completed |-> ~fault, escaped |-> FALSE]

WriterCall(call, driver_index, lap_number, data, fault) ==
    [call |-> call, driver_index |-> driver_index, lap_number |-> lap_number,
     data |-> data, raised |-> fault]

Started(model) ==
    [session |-> model.session, players |-> model.players, events |-> <<>>,
     escaped |-> FALSE, new_laps |-> {}]

\* '%.2f' % x for a whole number of percent, in hundredths
Fmt2(x) == x * 100

\* The dictionaries packet_management.py has as globals, bound by
\* "from src.packet_processing.dictionnaries import *" (line 6).
Dictionaries ==
    {"DRS_dict", "ERS_dictionary", "WeatherForecastAccuracy", "color_flag_dict",
     "drs_disabled_reasons", "fuel_dict", "packetDictionnary", "pit_dictionary",
     "retirements_dictionnary", "safetyCarStatusDict", "session_dictionary",
     "teams_color_dictionary", "teams_name_dictionary", "track_dictionary",
     "tyres_color_dictionnary", "tyres_dictionnary", "weather_dictionary"}

\* Evaluating a global name no import and no assignment binds raises
\* NameError: tracks_name and session_types (lines 39-40) and
\* visual_tyre_compound_dictionary (lines 131, 280).
NameError(name) == name \notin Dictionaries

(***************************************************************************)
(* Python floats.  The double x is held as [ms, err] with                  *)
(*     x = (ms * 2^62 + err) / (1000 * 2^62) :                             *)
(* ms the whole number of thousandths x stands for, err what rounding to   *)
(* 53 bits has added.  Each operation rounds its exact result to the       *)
(* nearest double, ties to even, as IEEE 754 does; the remainders are      *)
(* taken without forming the 63-bit numerator.                             *)
(***************************************************************************)
RECURSIVE Pow2(_)
Pow2(j) == IF j = 0 THEN 1 ELSE 2 * Pow2(j - 1)

RECURSIVE Pow2Mod(_, _)
Pow2Mod(j, m) == IF j = 0 THEN 1 % m ELSE (2 * Pow2Mod(j - 1, m)) % m

Abs(k) == IF k < 0 THEN -k ELSE k

\* The value is on the zero side of ms thousandths.
TowardsZero(ms, err) == (ms > 0 /\ err < 0) \/ (ms < 0 /\ err > 0)

RECURSIVE BinadeFrom(_, _, _)
\* The largest e >= from with unit * 2^e <= a
BinadeFrom(a, unit, e) ==
    IF unit * Pow2(e + 1) <= a THEN BinadeFrom(a, unit, e + 1) ELSE e

\* e, or e - 1 when the value is just under unit * 2^e
BinadeUnder(ms, err, a, unit, e) ==
    IF a = unit * Pow2(e) /\ TowardsZero(ms, err) THEN e - 1 ELSE e

\* The binary exponent of the double nearest a value that is a away from 0
\* in units of unit.
Binade(ms, err, a, unit) == BinadeUnder(ms, err, a, unit, BinadeFrom(a, unit, 0))

\* The binary exponent of a double of ms thousandths (ms # 0), plus 10.
Exponent10(ms, err) == Binade(ms, err, Abs(ms) * 1024, 1000)

\* What the value exceeds a multiple of unit * 2^e10 by
Excess(ms, err, e10, unit) ==
    (Pow2(e10) * (((ms % unit) * Pow2Mod(62 - e10, unit)) % unit) + err)
        % (unit * Pow2(e10))

\* Round to nearest, ties to even: rem is the excess over a multiple of ulp,
\* even tells whether that multiple is an even one.
Nearest(ms, err, ulp, rem, even) ==
    [ms |-> ms,
     err |-> IF rem * 2 < ulp \/ (rem * 2 = ulp /\ even)
             THEN err - rem
             ELSE err + ulp - rem]

RoundedAt(ms, err, e10) ==
    Nearest(ms, err, 1000 * Pow2(e10), Excess(ms, err, e10, 1000),
            Excess(ms, err, e10, 2000) < 1000 * Pow2(e10))

\* (ms * 2^62 + err) / (1000 * 2^62) rounded to the nearest double.
RoundDouble(ms, err) ==
    IF ms = 0
    THEN [ms |-> ms, err |-> err]
    ELSE RoundedAt(ms, err, Exponent10(ms, err))

\* ms / 1000 for an int ms, as in lines 113 and 147
Seconds(ms) == RoundDouble(ms, 0)

\* a - b
FloatSub(a, b) == RoundDouble(a.ms - b.ms, a.err - b.err)

\* a > 0
FloatPositive(a) == a.ms > 0 \/ (a.ms = 0 /\ a.err > 0)

\* The integer part of a value of ms thousands and err
Truncated(ms, err) ==
    IF ms > 0
    THEN (IF err >= 0 THEN ms ELSE ms - 1)
    ELSE (IF err <= 0 THEN ms ELSE ms + 1)

ProductAt(ms, err, ulp) ==
    Truncated(ms, Nearest(ms, err, ulp, err % ulp, (err \div ulp) % 2 = 0).err)

\* int(a * 1000), lines 127-129: the product rounded to a double, then
\* truncated towards zero.
IntTimes1000(a) ==
    IF a.ms = 0
    THEN 0
    ELSE ProductAt(a.ms, a.err, Pow2(10 + Binade(a.ms, a.err, Abs(a.ms), 1)))

\* "int(x * 1000) if x > 0 else None", lines 127-129
SectorMs(x) == IF FloatPositive(x) THEN IntTimes1000(x) ELSE None

\* update_session (lines 25-88): clock is time.time(), interval_passed
\* whether it is more than 30 s after _last_weather_sample_time.  The try
\* of lines 38-52 looks up tracks_name and session_types before it calls
\* create_session, and its except swallows what they raise.
update_session(model, packet, create_fault, weather_fault, clock, interval_passed) ==
    LET s == model.session
        rollover == s.track # packet.m_track_id \/ s.Session # packet.m_session_type
        s1 == [s EXCEPT !.nbLaps = packet.m_total_laps]
        s2 == IF rollover THEN [s1 EXCEPT !.track = packet.m_track_id] ELSE s1
        creates == /\ rollover
                   /\ ~NameError("tracks_name")
                   /\ ~NameError("session_types")
        create == TryCall(create_fault)
        created == IF creates
                   THEN <<WriterCall("create_session", -1, -1,
                                     [track_id |-> packet.m_track_id,
                                      total_laps |-> packet.m_total_laps],
                                     create_fault)>>
                   ELSE <<>>
        s3 == [s2 EXCEPT !.Session = packet.m_session_type,
                         !.weatherList = packet.m_weather_forecast_samples]
        has_time == s3.last_weather_sample_time # Absent
        samples == has_time /\ interval_passed
        s4 == IF ~has_time \/ samples
              THEN [s3 EXCEPT !.last_weather_sample_time = clock]
              ELSE s3
        weather == TryCall(weather_fault)
        sampled == IF samples
                   THEN <<WriterCall("queue_weather_sample", -1, -1,
                                     [air_temp |->
                                          packet.m_weather_forecast_samples[1].m_air_temperature,
                                      track_temp |->
                                          packet.m_weather_forecast_samples[1].m_track_temperature],
                                     weather_fault)>>
                   ELSE <<>>
    IN  IF creates /\ create.escaped
        THEN [Started(model) EXCEPT !.session = s2, !.events = created,
                                    !.escaped = TRUE]
        ELSE IF samples /\ weather.escaped
        THEN [Started(model) EXCEPT !.session = s4, !.events = created \o sampled,
                                    !.escaped = TRUE]
        ELSE [Started(model) EXCEPT !.session = s4, !.events = created \o sampled]

\* The lap boundary test without the stored sector 1.
IsNewLapNoEdge(element, joueur) ==
    element.m_sector1_time_in_ms = 0

\* "We start a new lap", line 111
IsNewLap(element, joueur) ==
    element.m_sector1_time_in_ms = 0 /\ joueur.currentSectors[1] # 0

\* The best-lap test taking a reported 0 for a lap time.
IsBestLapAnyTime(joueur, element) ==
    \/ joueur.bestLapTime > element.m_last_lap_time_in_ms
    \/ joueur.bestLapTime = 0

\* joueur.bestLapTime > element.m_last_lap_time_in_ms != 0
\* or joueur.bestLapTime == 0, line 148
IsBestLap(joueur, element) ==
    \/ /\ joueur.bestLapTime > element.m_last_lap_time_in_ms
       /\ element.m_last_lap_time_in_ms # 0
    \/ joueur.bestLapTime = 0

\* The body of update_lap_data's loop for one slot, lines 94-156.  The
\* lap_data of lines 123-142 is built up to 'tyre_compound', which looks up
\* visual_tyre_compound_dictionary; the except of line 144 swallows what
\* that raises, and queue_lap is not called.
LapSlot(acc, index, element, fault) ==
    LET joueur == acc.players[index]
        j1 == [joueur EXCEPT !.position = element.m_car_position,
                             !.lastLapTime = element.m_last_lap_time_in_ms,
                             !.speedTrapSpeed = element.m_speedTrapFastestSpeed]
        new_lap == IsNewLap(element, j1)
        j2 == IF new_lap
              THEN [j1 EXCEPT
                      !.lastLapSectors =
                          <<j1.currentSectors[1], j1.currentSectors[2],
                            j1.lastLapTime - j1.currentSectors[1] - j1.currentSectors[2]>>,
                      !.tyre_wear_on_last_lap =
                          [t \in Tyres |-> j1.tyre_wear[t] - j1.tyre_wear_before_last_lap[t]],
                      !.tyre_wear_before_last_lap = j1.tyre_wear]
              ELSE j1
        sector3 == FloatSub(FloatSub(Seconds(j1.lastLapTime),
                                     Seconds(j1.currentSectors[1])),
                            Seconds(j1.currentSectors[2]))
        queues == /\ new_lap
                  /\ j2.lastLapTime > 0
                  /\ ~NameError("visual_tyre_compound_dictionary")
        call == TryCall(fault[index])
        events == IF queues
                  THEN Append(acc.events,
                              WriterCall("queue_lap", index,
                                         element.m_current_lap_num - 1,
                                         [lap_time_ms |-> j2.lastLapTime,
                                          sector1_time_ms |->
                                              SectorMs(Seconds(j1.currentSectors[1])),
                                          sector2_time_ms |->
                                              SectorMs(Seconds(j1.currentSectors[2])),
                                          sector3_time_ms |-> SectorMs(sector3),
                                          position |-> j2.position],
                                         fault[index]))
                  ELSE acc.events
        new_laps == IF new_lap THEN acc.new_laps \cup {index} ELSE acc.new_laps
        j3 == [j2 EXCEPT !.currentSectors = <<element.m_sector1_time_in_ms,
                                              element.m_sector2_time_in_ms, 0>>]
        j4 == IF IsBestLap(j3, element)
              THEN [j3 EXCEPT !.bestLapTime = element.m_last_lap_time_in_ms,
                              !.bestLapSectors = j3.lastLapSectors]
              ELSE j3
        s1 == IF \/ j4.bestLapTime < acc.session.bestLapTime
                    /\ element.m_last_lap_time_in_ms # 0
                 \/ j4.bestLapTime = 0
              THEN [acc.session EXCEPT !.bestLapTime = j4.bestLapTime,
                                       !.idxBestLapTime = index]
              ELSE acc.session
        s2 == IF element.m_car_position = 1
              THEN [s1 EXCEPT !.currentLap = element.m_current_lap_num,
                              !.tour_precedent = element.m_current_lap_num - 1]
              ELSE s1
    IN  IF queues /\ call.escaped
        THEN [acc EXCEPT !.players[index] = j2, !.events = events,
                         !.new_laps = new_laps, !.escaped = TRUE]
        ELSE [acc EXCEPT !.players[index] = j4, !.session = s2, !.events = events,
                         !.new_laps = new_laps]

RECURSIVE LapLoop(_, _, _, _)
\* for index in range(22), line 93; mega_array[index], line 94, raises
\* IndexError past the end of an array that holds fewer cars.
LapLoop(acc, index, packet, fault) ==
    IF index = NumSlots \/ acc.escaped
    THEN acc
    ELSE IF index \notin DOMAIN packet
    THEN [acc EXCEPT !.escaped = TRUE]
    ELSE LapLoop(LapSlot(acc, index, packet[index], fault), index + 1, packet, fault)

\* sorted(PLAYERS_LIST, key=speedTrapSpeed, reverse=True) and the positions
\* given in that order, lines 158-160: slots of equal speed keep their order.
SpeedTrapRanking(players) ==
    [index \in Slots |->
        [players[index] EXCEPT !.speedTrapPosition =
            1 + Cardinality({k \in Slots :
                               \/ players[k].speedTrapSpeed > players[index].speedTrapSpeed
                               \/ /\ players[k].speedTrapSpeed = players[index].speedTrapSpeed
                                  /\ k < index})]]

\* update_lap_data, lines 91-160
update_lap_data(model, packet, fault) ==
    LET looped == LapLoop(Started(model), 0, packet, fault)
    IN  IF looped.escaped
        THEN looped
        ELSE [looped EXCEPT !.players = SpeedTrapRanking(looped.players)]

\* PLAYERS_LIST[index] raises IndexError: the list has one Player per slot,
\* and the indexes of a packet are unsigned.
IndexError(index) == index \notin Slots

\* update_event taking any start-lights event for the end of the formation
\* lap, whatever its number of lights.
update_event_any_lights(model, packet) ==
    IF packet.code = "STLG"
    THEN [Started(model) EXCEPT !.session.formationLapDone = TRUE]
    ELSE IF packet.code = "LGOT" /\ model.session.formationLapDone
    THEN [Started(model) EXCEPT
            !.session.formationLapDone = FALSE,
            !.players = [index \in Slots |-> reset(model.players[index])]]
    ELSE IF packet.code = "RTMT"
    THEN IF IndexError(packet.m_vehicle_idx)
         THEN [Started(model) EXCEPT !.escaped = TRUE]
         ELSE [Started(model) EXCEPT !.players[packet.m_vehicle_idx].hasRetired = TRUE]
    ELSE IF packet.code = "FTLP"
    THEN [Started(model) EXCEPT !.escaped = IndexError(packet.m_vehicle_idx)]
    ELSE Started(model)

\* update_event, lines 163-186, without the lines it adds to the event list
\* of the window.  A retirement or a fastest lap indexes PLAYERS_LIST with
\* the vehicle index of the packet, outside any try.
update_event(model, packet) ==
    IF packet.code = "STLG" /\ packet.m_num_lights >= 2
    THEN [Started(model) EXCEPT !.session.formationLapDone = TRUE]
    ELSE IF packet.code = "LGOT" /\ model.session.formationLapDone
    THEN [Started(model) EXCEPT
            !.session.formationLapDone = FALSE,
            !.players = [index \in Slots |-> reset(model.players[index])]]
    ELSE IF packet.code = "RTMT"
    THEN IF IndexError(packet.m_vehicle_idx)
         THEN [Started(model) EXCEPT !.escaped = TRUE]
         ELSE [Started(model) EXCEPT !.players[packet.m_vehicle_idx].hasRetired = TRUE]
    ELSE IF packet.code = "FTLP"
    THEN [Started(model) EXCEPT !.escaped = IndexError(packet.m_vehicle_idx)]
    ELSE Started(model)

\* update_participants, lines 189-210: the field the other handlers read.
update_participants(model, packet) ==
    [Started(model) EXCEPT !.players =
        [index \in Slots |->
            [model.players[index] EXCEPT !.yourTelemetry = packet[index].m_your_telemetry]]]

\* The first loop of update_car_telemetry for one slot, lines 219-227.
TelemetrySlot(joueur, element) ==
    LET j1 == [joueur EXCEPT !.speed = element.m_speed]
    IN  IF j1.speed >= 200 /\ ~j1.S200_reached
        THEN [j1 EXCEPT !.S200_reached = TRUE]
        ELSE j1

\* update_car_telemetry, lines 217-262: one snapshot, of the first slot
\* whose yourTelemetry is 1.
update_car_telemetry(model, packet, fault) ==
    LET players == [index \in Slots |-> TelemetrySlot(model.players[index], packet[index])]
        mine == {index \in Slots : players[index].yourTelemetry = 1}
        first == CHOOSE index \in mine : \A k \in mine : index <= k
    IN  IF mine = {}
        THEN [Started(model) EXCEPT !.players = players]
        ELSE [Started(model) EXCEPT
                !.players = players,
                !.events = <<WriterCall("queue_telemetry", first,
                                        model.session.currentLap,
                                        [speed_kph |-> packet[first].m_speed],
                                        fault[first])>>,
                !.escaped = TryCall(fault[first]).escaped]

\* The body of update_car_status's loop for one slot, lines 266-304.  The
\* first value of tyre_data, line 280, looks up
\* visual_tyre_compound_dictionary; the except of line 296 swallows what
\* that raises, queue_tyre_data is not called, and line 299 stores the
\* compound.
StatusSlot(acc, index, element, fault) ==
    LET joueur == acc.players[index]
        j1 == [joueur EXCEPT !.tyresAgeLaps = element.m_tyres_age_laps]
        changed == j1.tyres # element.m_visual_tyre_compound
        queues == changed /\ ~NameError("visual_tyre_compound_dictionary")
        call == TryCall(fault[index])
        events == IF queues
                  THEN Append(acc.events,
                              WriterCall("queue_tyre_data", index,
                                         acc.session.currentLap,
                                         [age_laps |-> element.m_tyres_age_laps,
                                          wear_fl |-> j1.tyre_wear[3],
                                          wear_fr |-> j1.tyre_wear[4],
                                          wear_rl |-> j1.tyre_wear[1],
                                          wear_rr |-> j1.tyre_wear[2]],
                                         fault[index]))
                  ELSE acc.events
        j2 == IF changed
              THEN [j1 EXCEPT !.tyres = element.m_visual_tyre_compound]
              ELSE j1
    IN  IF queues /\ call.escaped
        THEN [acc EXCEPT !.players[index] = j1, !.events = events, !.escaped = TRUE]
        ELSE [acc EXCEPT !.players[index] = j2, !.events = events]

RECURSIVE StatusLoop(_, _, _, _)
\* for index in range(22), line 265
StatusLoop(acc, index, packet, fault) ==
    IF index = NumSlots \/ acc.escaped
    THEN acc
    ELSE StatusLoop(StatusSlot(acc, index, packet[index], fault), index + 1, packet, fault)

\* update_car_status, lines 264-304
update_car_status(model, packet, fault) ==
    StatusLoop(Started(model), 0, packet, fault)

\* total_damage, lines 315-317
TotalDamage(element) ==
    element.m_front_left_wing_damage + element.m_front_right_wing_damage
    + element.m_rear_wing_damage + element.m_floor_damage
    + element.m_diffuser_damage + element.m_sidepod_damage

\* "significant damage (> 5% on any component)", lines 320-322
Significant(element) ==
    \/ element.m_front_left_wing_damage > 5
    \/ element.m_front_right_wing_damage > 5
    \/ element.m_rear_wing_damage > 5
    \/ element.m_floor_damage > 5
    \/ element.m_diffuser_damage > 5
    \/ element.m_sidepod_damage > 5

\* The damage gate letting any rise through.
DamageRisenAtAll(total_damage, joueur) ==
    total_damage - joueur.last_damage_total >= 1

\* "Only queue if damage increased by at least 2%", line 329
DamageRisen(total_damage, joueur) ==
    total_damage - joueur.last_damage_total >= 2

\* The body of update_car_damage's loop for one slot, lines 308-358:
\* _last_damage_total is assigned after the writer call, inside the try.
DamageSlot(acc, index, element, fault) ==
    LET joueur == acc.players[index]
        total_damage == TotalDamage(element)
        j1 == IF Significant(element) /\ joueur.last_damage_total = Absent
              THEN [joueur EXCEPT !.last_damage_total = 0]
              ELSE joueur
        queues == Significant(element) /\ DamageRisen(total_damage, j1)
        call == TryCall(fault[index])
        events == IF queues
                  THEN Append(acc.events,
                              WriterCall("queue_damage_event", index,
                                         acc.session.currentLap,
                                         [front_left_wing_damage |->
                                              element.m_front_left_wing_damage,
                                          front_right_wing_damage |->
                                              element.m_front_right_wing_damage,
                                          rear_wing_damage |-> element.m_rear_wing_damage,
                                          floor_damage |-> element.m_floor_damage,
                                          diffuser_damage |-> element.m_diffuser_damage,
                                          sidepod_damage |-> element.m_sidepod_damage,
                                          front_left_wing_delta |->
                                              element.m_front_left_wing_damage
                                              - j1.frontLeftWingDamage,
                                          front_right_wing_delta |->
                                              element.m_front_right_wing_damage
                                              - j1.frontRightWingDamage,
                                          rear_wing_delta |->
                                              element.m_rear_wing_damage
                                              - j1.rearWingDamage,
                                          damage_type |->
                                              IF total_damage - j1.last_damage_total > 10
                                              THEN "COLLISION" ELSE "WEAR",
                                          severity |->
                                              IF total_damage > 30 THEN "HIGH"
                                              ELSE IF total_damage > 10 THEN "MEDIUM"
                                              ELSE "LOW"],
                                         fault[index]))
                  ELSE acc.events
        j2 == IF queues /\ call.completed
              THEN [j1 EXCEPT !.last_damage_total = total_damage]
              ELSE j1
        j3 == [j2 EXCEPT
                 !.tyre_wear = [t \in Tyres |-> Fmt2(element.m_tyres_wear[t])],
                 !.frontLeftWingDamage = element.m_front_left_wing_damage,
                 !.frontRightWingDamage = element.m_front_right_wing_damage,
                 !.rearWingDamage = element.m_rear_wing_damage,
                 !.floorDamage = element.m_floor_damage,
                 !.diffuserDamage = element.m_diffuser_damage,
                 !.sidepodDamage = element.m_sidepod_damage]
    IN  IF queues /\ call.escaped
        THEN [acc EXCEPT !.players[index] = j1, !.events = events, !.escaped = TRUE]
        ELSE [acc EXCEPT !.players[index] = j3, !.events = events]

RECURSIVE DamageLoop(_, _, _, _)
\* for index in range(22), line 307
DamageLoop(acc, index, packet, fault) ==
    IF index = NumSlots \/ acc.escaped
    THEN acc
    ELSE DamageLoop(DamageSlot(acc, index, packet[index], fault), index + 1, packet, fault)

\* update_car_damage, lines 306-358
update_car_damage(model, packet, fault) ==
    DamageLoop(Started(model), 0, packet, fault)

(***************************************************************************)
(* The writer as the handlers call it: the queue_* methods of              *)
(* data_writer.py applied to the calls of one handler, in call order.      *)
(***************************************************************************)
\* One queue_* call (lines 133-212) under session id sid: a call that raises
\* leaves the queue as it was, create_session is not a queue_* call.
QueueOne(w, sid, event) ==
    IF event.call = "create_session"
    THEN w
    ELSE IF event.raised
    THEN [w EXCEPT !.calls = Append(@, "raised")]
    ELSE IF sid = None
    THEN [w EXCEPT !.calls = Append(@, "nosession")]
    ELSE IF Len(w.write_queue) < maxsize
    THEN [w EXCEPT !.write_queue =
                       Append(@, [data |-> [session_id |-> sid, id |-> Len(w.calls) + 1]]),
                   !.calls = Append(@, "accepted")]
    ELSE [w EXCEPT !.warnings = @ + 1, !.calls = Append(@, "dropped")]

RECURSIVE QueueAll(_, _, _)
QueueAll(w, sid, events) ==
    IF events = <<>>
    THEN w
    ELSE QueueAll(QueueOne(w, sid, Head(events)), sid, Tail(events))

\* The six components of a damage event added up.
PayloadTotal(data) ==
    data.front_left_wing_damage + data.front_right_wing_damage
    + data.rear_wing_damage + data.floor_damage
    + data.diffuser_damage + data.sidepod_damage

\* Per slot, the total of the last queue_damage_event call of events that
\* returned, totals[index] when there is none.
TotalsEmitted(totals, events) ==
    [index \in Slots |->
        LET mine == {k \in DOMAIN events : /\ events[k].call = "queue_damage_event"
                                           /\ events[k].driver_index = index
                                           /\ ~events[k].raised}
        IN  IF mine = {}
            THEN totals[index]
            ELSE PayloadTotal(events[CHOOSE k \in mine : \A n \in mine : n <= k].data)]

\* Per slot, the lap number of the last call of events for the slot's
\* driver that returned, laps[index] when there is none.
LapsEmitted(laps, events) ==
    [index \in Slots |->
        LET mine == {k \in DOMAIN events : /\ events[k].driver_index = index
                                           /\ ~events[k].raised}
        IN  IF mine = {}
            THEN laps[index]
            ELSE events[CHOOSE k \in mine : \A n \in mine : n <= k].lap_number]

Raised(events) ==
    {[call |-> events[k].call, driver_index |-> events[k].driver_index] :
        k \in {n \in DOMAIN events : events[n].raised}}

\* A handler called with a packet: result is what it leaves, unfaulted what
\* it leaves when no writer call raises, sid the writer's session id during
\* its queue_* calls.
Handled(name, result, unfaulted, sid) ==
    LET w == QueueAll([write_queue |-> write_queue, calls |-> calls,
                       warnings |-> warnings], sid, result.events)
    IN  /\ last_handler' = name
        /\ session' = result.session
        /\ PLAYERS_LIST' = result.players
        /\ escaped' = result.escaped
        /\ raised' = Raised(result.events)
        /\ emitted' = result.events
        /\ event_total' = TotalsEmitted(event_total, result.events)
        /\ event_lap' = LapsEmitted(event_lap, result.events)
        /\ table_fresh' = FALSE
        /\ reference' = [session |-> unfaulted.session, players |-> unfaulted.players]
        /\ write_queue' = w.write_queue
        /\ calls' = w.calls
        /\ warnings' = w.warnings
        /\ UNCHANGED <<uvars, xvars, maxsize, batch_size, running, worker_thread, workers,
                       stop_pc, sink, handed, lost, dequeued, report>>

\* The handler runs once: what it leaves is worked out once.
Handle(name, call, call_unfaulted, sid) ==
    \E result \in {call}, unfaulted \in {call_unfaulted} :
        Handled(name, result, unfaulted, sid)

(***************************************************************************)
(* The packets the aggregator is fed.                                      *)
(***************************************************************************)
TrackIds == {5, 7}

SessionTypes == {10, 13}

SessionPackets ==
    [m_track_id : TrackIds,
     m_session_type : SessionTypes,
     m_total_laps : {78},
     m_weather_forecast_samples :
         {<<[m_air_temperature |-> 25, m_track_temperature |-> 31]>>}]

\* Sector times and last lap time of a car: sector 2 is timed after sector 1.
LapTimes ==
    {times \in [m_sector1_time_in_ms : {0, 28500},
                m_sector2_time_in_ms : {0, 31200},
                m_last_lap_time_in_ms : {0, 95300}] :
        times.m_sector2_time_in_ms # 0 => times.m_sector1_time_in_ms # 0}

LapNums == {2}

\* Lap data of cars running in slot order on the same lap.
LapPackets ==
    {[index \in Slots |->
         [m_sector1_time_in_ms |-> times[index].m_sector1_time_in_ms,
          m_sector2_time_in_ms |-> times[index].m_sector2_time_in_ms,
          m_last_lap_time_in_ms |-> times[index].m_last_lap_time_in_ms,
          m_car_position |-> index + 1,
          m_current_lap_num |-> num,
          m_speedTrapFastestSpeed |-> 0]] :
        times \in [Slots -> LapTimes], num \in LapNums}

ParticipantsPackets == [Slots -> [m_your_telemetry : {0, 1}]]

TelemetryPackets == [Slots -> [m_speed : {180, 250}]]

StatusPackets ==
    [Slots -> [m_visual_tyre_compound : {16, 17}, m_tyres_age_laps : {3}]]

\* Damage to the front left wing only, on worn tyres.
DamageElements ==
    [m_front_left_wing_damage : {0, 10, 13},
     m_front_right_wing_damage : {0},
     m_rear_wing_damage : {0},
     m_floor_damage : {0},
     m_diffuser_damage : {0},
     m_sidepod_damage : {0},
     m_tyres_wear : {[t \in Tyres |-> 5]}]

DamagePackets == [Slots -> DamageElements]

(***************************************************************************)
(* The aggregator fed packets one at a time (update_table dispatches each  *)
(* received packet to its handler), the writer constructed and not         *)
(* started.                                                                *)
(***************************************************************************)
UpdateSession ==
    /\ handled < MaxPackets
    /\ handled' = handled + 1
    /\ \E packet \in SessionPackets, create_fault, weather_fault, interval_passed \in BOOLEAN :
        LET result == update_session(Model, packet, create_fault, weather_fault,
                                     handled + 1, interval_passed)
            unfaulted == update_session(Model, packet, FALSE, FALSE,
                                        handled + 1, interval_passed)
            creates == \E k \in DOMAIN result.events :
                          /\ result.events[k].call = "create_session"
                          /\ ~result.events[k].raised
            sid == IF creates THEN sessions_created + 1 ELSE current_session_id
        IN  /\ Handle("update_session", result, unfaulted, sid)
            /\ sessions_created' = IF creates THEN sessions_created + 1
                                              ELSE sessions_created
            /\ current_session_id' = sid
            /\ UNCHANGED lights
            /\ lap' = NoLap

\* function_hashmap[2] called with one lap-data packet
LapDataCall(packet, fault) ==
    /\ handled' = handled + 1
    /\ Handle("update_lap_data", update_lap_data(Model, packet, fault),
              update_lap_data(Model, packet, NoFault), current_session_id)
    /\ UNCHANGED lights
    /\ lap' = [packet |-> packet,
               new_laps |-> update_lap_data(Model, packet, fault).new_laps,
               repeat |-> lap.packet = packet,
               before |-> IF lap.packet = packet THEN lap.new_laps ELSE {}]
    /\ UNCHANGED <<sessions_created, current_session_id>>

LapData(packet, fault) == handled < MaxPackets /\ LapDataCall(packet, fault)

UpdateLapData == \E packet \in LapPackets, fault \in Faults : LapData(packet, fault)

UpdateParticipants ==
    /\ handled < MaxPackets
    /\ handled' = handled + 1
    /\ \E packet \in ParticipantsPackets :
        /\ Handle("update_participants", update_participants(Model, packet),
                  update_participants(Model, packet), current_session_id)
        /\ UNCHANGED lights
        /\ lap' = NoLap
        /\ UNCHANGED <<sessions_created, current_session_id>>

UpdateCarTelemetry ==
    /\ handled < MaxPackets
    /\ handled' = handled + 1
    /\ \E packet \in TelemetryPackets, fault \in Faults :
        /\ Handle("update_car_telemetry", update_car_telemetry(Model, packet, fault),
                  update_car_telemetry(Model, packet, NoFault), current_session_id)
        /\ UNCHANGED lights
        /\ lap' = NoLap
        /\ UNCHANGED <<sessions_created, current_session_id>>

UpdateCarStatus ==
    /\ handled < MaxPackets
    /\ handled' = handled + 1
    /\ \E packet \in StatusPackets, fault \in Faults :
        /\ Handle("update_car_status", update_car_status(Model, packet, fault),
                  update_car_status(Model, packet, NoFault), current_session_id)
        /\ UNCHANGED lights
        /\ lap' = NoLap
        /\ UNCHANGED <<sessions_created, current_session_id>>

UpdateCarDamage ==
    /\ handled < MaxPackets
    /\ handled' = handled + 1
    /\ \E packet \in DamagePackets, fault \in Faults :
        /\ Handle("update_car_damage", update_car_damage(Model, packet, fault),
                  update_car_damage(Model, packet, NoFault), current_session_id)
        /\ UNCHANGED lights
        /\ lap' = NoLap
        /\ UNCHANGED <<sessions_created, current_session_id>>

\* The datagram of the last lap-data packet delivered a second time.
RedeliverLapData ==
    /\ lap.packet # <<>>
    /\ ~lap.repeat
    /\ \E fault \in Faults :
        /\ Handle("update_lap_data", update_lap_data(Model, lap.packet, fault),
                  update_lap_data(Model, lap.packet, NoFault), current_session_id)
        /\ UNCHANGED lights
        /\ lap' = [packet |-> lap.packet,
                   new_laps |-> update_lap_data(Model, lap.packet, fault).new_laps,
                   repeat |-> TRUE,
                   before |-> lap.new_laps]
    /\ UNCHANGED <<handled, sessions_created, current_session_id>>

(***************************************************************************)
(* The lap timing of a session: lap data with two lap times, lap data      *)
(* whose array is cut short, and the events of the start and of            *)
(* retirements.                                                            *)
(***************************************************************************)
\* Sector times of a car at the start of a lap or past sector 2, and the
\* time of its last lap.
TimedLaps ==
    {times \in [m_sector1_time_in_ms : {0, 28500},
                m_sector2_time_in_ms : {0, 31200},
                m_last_lap_time_in_ms : {0, 93000, 95300}] :
        times.m_sector2_time_in_ms # 0 <=> times.m_sector1_time_in_ms # 0}

TimedLapElement(times, index) ==
    [m_sector1_time_in_ms |-> times.m_sector1_time_in_ms,
     m_sector2_time_in_ms |-> times.m_sector2_time_in_ms,
     m_last_lap_time_in_ms |-> times.m_last_lap_time_in_ms,
     m_car_position |-> index + 1,
     m_current_lap_num |-> 2,
     m_speedTrapFastestSpeed |-> 0]

TimedLapPackets ==
    {[index \in Slots |-> TimedLapElement(times[index], index)] :
        times \in [Slots -> TimedLaps]}

\* m_lap_data holding the first cars only.
ShortLapPackets ==
    {[index \in 0..(cars - 1) |->
         TimedLapElement([m_sector1_time_in_ms |-> 0, m_sector2_time_in_ms |-> 0,
                          m_last_lap_time_in_ms |-> last], index)] :
        cars \in 1..(NumSlots - 1), last \in {93000, 95300}}

\* Start lights, lights out, a retirement or fastest lap of a vehicle index
\* (NumSlots is the first index past PLAYERS_LIST), the chequered flag.
EventPackets ==
    {[code |-> "STLG", m_num_lights |-> num, m_vehicle_idx |-> 0] : num \in {1, 2, 3}}
    \cup {[code |-> code, m_num_lights |-> 0, m_vehicle_idx |-> 0] : code \in {"LGOT", "CHQF"}}
    \cup {[code |-> code, m_num_lights |-> 0, m_vehicle_idx |-> index] :
             code \in {"RTMT", "FTLP"}, index \in 0..NumSlots}

UpdateLapTimes ==
    \E packet \in TimedLapPackets \cup ShortLapPackets : LapData(packet, NoFault)

\* Whether start lights were received after the last lights out, as the
\* event packets received so far tell, packet being the last of them.
StartLightsSince(before, packet) ==
    IF packet.code = "STLG" /\ packet.m_num_lights >= 2
    THEN TRUE
    ELSE IF packet.code = "LGOT"
    THEN FALSE
    ELSE before.since

UpdateEvent ==
    /\ handled < MaxPackets
    /\ handled' = handled + 1
    /\ \E packet \in EventPackets :
        /\ Handle("update_event", update_event(Model, packet),
                  update_event(Model, packet), current_session_id)
        /\ lights' = [code |-> packet.code, since |-> StartLightsSince(lights, packet)]
        /\ lap' = NoLap
        /\ UNCHANGED <<sessions_created, current_session_id>>

LapsNext ==
    \/ UpdateLapTimes
    \/ UpdateEvent

SpecLaps == Init /\ [][LapsNext]_vars

(***************************************************************************)
(* Damage building up: car-damage packets with damage to the front left    *)
(* wing and to the floor.                                                  *)
(***************************************************************************)
GradualDamageElements ==
    [m_front_left_wing_damage : {0, 10, 11, 13},
     m_front_right_wing_damage : {0},
     m_rear_wing_damage : {0},
     m_floor_damage : {0, 3},
     m_diffuser_damage : {0},
     m_sidepod_damage : {0},
     m_tyres_wear : {[t \in Tyres |-> 5]}]

GradualDamagePackets == [Slots -> GradualDamageElements]

\* function_hashmap[10] called with one car-damage packet
CarDamageCall(packet, fault) ==
    /\ handled' = handled + 1
    /\ Handle("update_car_damage", update_car_damage(Model, packet, fault),
              update_car_damage(Model, packet, NoFault), current_session_id)
    /\ UNCHANGED lights
    /\ lap' = NoLap
    /\ UNCHANGED <<sessions_created, current_session_id>>

UpdateGradualDamage ==
    /\ handled < MaxPackets
    /\ \E packet \in GradualDamagePackets, fault \in Faults : CarDamageCall(packet, fault)

SpecDamage == Init /\ [][UpdateGradualDamage]_vars

(***************************************************************************)
(* Lap ordinals: a session in which the car at position 1 changes, each    *)
(* car staying on its own lap, and the front left wing taking damage.      *)
(***************************************************************************)
MaxOrdinalPackets == 4

\* The lap each car is on: the car of slot 0 has run the most laps.
CarLap(index) == 3 * (NumSlots - index)

\* The orders the cars can be classified in.
Classifications ==
    {positions \in [Slots -> 1..NumSlots] :
        \A a, b \in Slots : a # b => positions[a] # positions[b]}

ClassifiedLapPackets ==
    {[index \in Slots |->
         [TimedLapElement([m_sector1_time_in_ms |-> 0, m_sector2_time_in_ms |-> 0,
                           m_last_lap_time_in_ms |-> 0], index)
             EXCEPT !.m_car_position = positions[index],
                    !.m_current_lap_num = CarLap(index)]] :
        positions \in Classifications}

WingDamageElements ==
    [m_front_left_wing_damage : {0, 10, 13},
     m_front_right_wing_damage : {0},
     m_rear_wing_damage : {0},
     m_floor_damage : {0},
     m_diffuser_damage : {0},
     m_sidepod_damage : {0},
     m_tyres_wear : {[t \in Tyres |-> 5]}]

WingDamagePackets == [Slots -> WingDamageElements]

UpdateClassification ==
    /\ handled < MaxOrdinalPackets
    /\ \E packet \in ClassifiedLapPackets : LapDataCall(packet, NoFault)

UpdateWingDamage ==
    /\ handled < MaxOrdinalPackets
    /\ \E packet \in WingDamagePackets, fault \in Faults : CarDamageCall(packet, fault)

OrdinalNext ==
    \/ UpdateClassification
    \/ UpdateWingDamage

SpecOrdinal == Init /\ [][OrdinalNext]_vars

(***************************************************************************)
(* The lap table: lap data moving the cars to other positions, position 0  *)
(* among them, and the table sorting the drivers.                          *)
(***************************************************************************)
MaxPosition == 3

CarPositions == 0..MaxPosition

PositionPackets ==
    {[index \in Slots |->
         [TimedLapElement([m_sector1_time_in_ms |-> 0, m_sector2_time_in_ms |-> 0,
                           m_last_lap_time_in_ms |-> 0], index)
             EXCEPT !.m_car_position = positions[index]]] :
        positions \in [Slots -> CarPositions]}

UpdateLapPositions ==
    \E packet \in PositionPackets : LapData(packet, NoFault)

\* LapTableModel.update, lines 59-73, without the signals it emits
LapTableUpdate ==
    /\ sorted_players_list' = sorted(PLAYERS_LIST)
    /\ lap_table_data' = Rows(sorted(PLAYERS_LIST), PLAYERS_LIST)
    /\ table_fresh' = TRUE
    /\ UNCHANGED <<wvars, xvars, session, PLAYERS_LIST, escaped, raised, reference, lap,
                   last_handler, handled, emitted, event_total, event_lap, lights,
                   packet_reception_dict, last_update, displayed, now>>

TableNext ==
    \/ UpdateLapPositions
    \/ LapTableUpdate

SpecTable == Init /\ [][TableNext]_vars

(***************************************************************************)
(* The packet reception monitor: the window on its Packet Reception tab,   *)
(* whose model's update() does nothing, receiving packets of the types     *)
(* that have no handler, while the clock runs.                             *)
(***************************************************************************)
MaxTime == 10

MaxCount == 2

\* Final classification and lobby info: "lambda packet : None"
UnhandledIds == {8, 9}

\* update_table, lines 288-300, for a packet of such a type
update_table(id) ==
    LET counted == [packet_reception_dict EXCEPT ![id] = @ + 1]
    IN  /\ packet_reception_dict[id] < MaxCount
        /\ IF now > last_update + TicksPerSecond
           THEN /\ displayed' = counted
                /\ packet_reception_dict' = [k \in PacketIds |-> 0]
                /\ last_update' = now
           ELSE /\ packet_reception_dict' = counted
                /\ UNCHANGED <<displayed, last_update>>
        /\ UNCHANGED <<wvars, avars, sorted_players_list, lap_table_data, now>>

UpdateTable(id) == update_table(id) /\ UNCHANGED xvars

\* time.time() moving on
ClockTick ==
    /\ now < MaxTime
    /\ now' = now + 1
    /\ UNCHANGED <<wvars, avars, xvars, sorted_players_list, lap_table_data,
                   packet_reception_dict, last_update, displayed>>

MonitorNext ==
    \/ \E id \in UnhandledIds : UpdateTable(id)
    \/ ClockTick

SpecMonitor == Init /\ [][MonitorNext]_vars

(***************************************************************************)
(* Dispatch: packets whose type id is none of the 16.  m_packet_id is an   *)
(* unsigned byte.                                                          *)
(***************************************************************************)
UnknownIds == {16, 255}

\* function_hashmap[header.m_packet_id], line 289, raises IndexError: the
\* list of lines 151-167 has 16 entries.
HashmapIndexError(id) == id \notin PacketIds

\* update_table, lines 288-300, for a packet of no known type: line 289
\* raises before anything is counted.
UpdateTableUnknown(id) ==
    /\ HashmapIndexError(id)
    /\ dispatch_error' = "IndexError"
    /\ UNCHANGED <<wvars, avars, uvars, rvars, yvars>>

DispatchNext ==
    \/ \E id \in UnhandledIds : UpdateTable(id)
    \/ \E id \in UnknownIds : UpdateTableUnknown(id)
    \/ ClockTick

SpecDispatch == Init /\ [][DispatchNext]_vars

(***************************************************************************)
(* The socket receiver.  SocketThread.run loops on its own thread; the     *)
(* window connects data_received to update_table (main_window.py line 72), *)
(* and since the signal is emitted on the receiver's thread and the window *)
(* lives on the main thread, each emission is queued to the main thread's  *)
(* event loop, which calls update_table when it gets to it.  stop() is     *)
(* called on the main thread by closeEvent.                                *)
(***************************************************************************)
MaxDatagrams == 3

\* What listener.get() returns: None, or the header and packet of a datagram.
\* The packets are of the types that have no handler.
Datagrams == {None} \cup UnhandledIds

rframe == <<wvars, avars, uvars, dvars, yvars>>

\* "while self.running", line 20
SocketLoopTest ==
    /\ socket_pc = "test"
    /\ socket_pc' = IF socket_running THEN "get" ELSE "done"
    /\ UNCHANGED <<rframe, socket_running, socket_stop, received, signals>>

\* "a = self.listener.get()" returning, and lines 22-23: the receive blocks
\* until a datagram comes.
SocketGet(a) ==
    /\ socket_pc = "get"
    /\ received < MaxDatagrams
    /\ received' = received + 1
    /\ signals' = IF a = None THEN signals ELSE Append(signals, a)
    /\ socket_pc' = "test"
    /\ UNCHANGED <<rframe, socket_running, socket_stop>>

\* stop(), lines 26-27, up to where wait() blocks; quit() ends an event loop
\* that run() never enters.
SocketStopCall ==
    /\ socket_stop = "idle"
    /\ socket_running' = FALSE
    /\ socket_stop' = "wait"
    /\ UNCHANGED <<rframe, socket_pc, received, signals>>

\* wait(), line 28, returning: run() has returned.
SocketStopReturn ==
    /\ socket_stop = "wait"
    /\ socket_pc = "done"
    /\ socket_stop' = "returned"
    /\ UNCHANGED <<rframe, socket_running, socket_pc, received, signals>>

\* The main thread's event loop delivering a queued data_received to
\* update_table; it delivers nothing while stop() holds the main thread.
Deliver ==
    /\ socket_stop # "wait"
    /\ signals # <<>>
    /\ signals' = Tail(signals)
    /\ update_table(Head(signals))
    /\ UNCHANGED <<dvars, yvars, socket_running, socket_pc, socket_stop, received>>

ReceiverNext ==
    \/ SocketLoopTest
    \/ \E a \in Datagrams : SocketGet(a)
    \/ SocketStopCall
    \/ SocketStopReturn
    \/ Deliver

SpecReceiver == Init /\ [][ReceiverNext]_vars

AggNext ==
    \/ UpdateSession
    \/ UpdateLapData
    \/ RedeliverLapData
    \/ UpdateParticipants
    \/ UpdateCarTelemetry
    \/ UpdateCarStatus
    \/ UpdateCarDamage

SpecAgg == Init /\ [][AggNext]_vars

(***************************************************************************)
(* C9: a failing writer never affects the live model.  After every handler *)
(* call no exception has reached the caller, and the Session and every     *)
(* driver slot are as the same call leaves them when no writer call        *)
(* raises.                                                                 *)
(***************************************************************************)
C9_ModelAsUnfaulted ==
    /\ ~escaped
    /\ session = reference.session
    /\ PLAYERS_LIST = reference.players

\* C9 as the code has it: the same, but for _last_damage_total of a slot
\* whose queue_damage_event raised, which update_car_damage leaves as it
\* was before the call.
C9_ModelAsUnfaultedButDamageMark ==
    /\ ~escaped
    /\ session = reference.session
    /\ \A index \in Slots :
         \/ PLAYERS_LIST[index] = reference.players[index]
         \/ /\ last_handler = "update_car_damage"
            /\ [call |-> "queue_damage_event", driver_index |-> index] \in raised
            /\ PLAYERS_LIST[index] =
                   [reference.players[index] EXCEPT
                       !.last_damage_total = PLAYERS_LIST[index].last_damage_total]

\* update_car_damage with queue_damage_event raising for a slot, which is
\* left with another _last_damage_total, after a writer call that returned.
C9_Witness ==
    /\ \E index \in Slots :
         /\ [call |-> "queue_damage_event", driver_index |-> index] \in raised
         /\ PLAYERS_LIST[index] # reference.players[index]
    /\ {"nosession", "raised"} \subseteq Range(calls)

(***************************************************************************)
(* C10: the same lap-data packet handled twice in a row: the second call   *)
(* finds no new lap for any driver, makes no writer call, and leaves       *)
(* lastLapSectors, the tyre wear snapshots and the best-lap records of     *)
(* every driver and of the session as the first call left them.            *)
(***************************************************************************)
LapRecords(joueur) ==
    <<joueur.lastLapSectors, joueur.tyre_wear_on_last_lap,
      joueur.tyre_wear_before_last_lap, joueur.bestLapTime, joueur.bestLapSectors>>

C10_SecondCall ==
    (lap'.repeat /\ lap' # lap)
        => /\ lap'.new_laps = {}
           /\ calls' = calls
           /\ write_queue' = write_queue
           /\ \A index \in Slots :
                LapRecords(PLAYERS_LIST'[index]) = LapRecords(PLAYERS_LIST[index])
           /\ session'.bestLapTime = session.bestLapTime
           /\ session'.idxBestLapTime = session.idxBestLapTime

C10_DuplicateLapDataIdempotent == [][C10_SecondCall]_vars

\* The packet that completed a driver's lap was handled a second time.
C10_Witness ==
    /\ lap.repeat
    /\ \E index \in lap.before :
         /\ PLAYERS_LIST[index].lastLapTime > 0
         /\ PLAYERS_LIST[index].lastLapSectors[1] # 0

(***************************************************************************)
(* The writer calls a handler call made for one driver.                    *)
(***************************************************************************)
EventsOf(events, call, index) ==
    {k \in DOMAIN events : events[k].call = call /\ events[k].driver_index = index}

(***************************************************************************)
(* C11: update_lap_data declares a driver's lap completed exactly when the *)
(* packet's sector-1 time is 0 while the driver's stored current sector-1  *)
(* time is not, and then makes one queue_lap call for the driver, with     *)
(* sector 1 and sector 2 as held before the call and sector 3 the last lap *)
(* time less the two, in milliseconds.                                     *)
(***************************************************************************)
C11_LapEdge(index) ==
    /\ lap'.packet[index].m_sector1_time_in_ms = 0
    /\ PLAYERS_LIST[index].currentSectors[1] # 0

C11_LapCompleted(index) ==
    LET held == PLAYERS_LIST[index].currentSectors
        mine == EventsOf(emitted', "queue_lap", index)
    IN  /\ index \in lap'.new_laps <=> C11_LapEdge(index)
        /\ Cardinality(mine) = IF C11_LapEdge(index) THEN 1 ELSE 0
        /\ \A k \in mine :
             /\ emitted'[k].data.sector1_time_ms = held[1]
             /\ emitted'[k].data.sector2_time_ms = held[2]
             /\ emitted'[k].data.sector3_time_ms =
                    lap'.packet[index].m_last_lap_time_in_ms - held[1] - held[2]

C11_LapCompletedOnEdge ==
    [][last_handler' = "update_lap_data" => \A index \in Slots : C11_LapCompleted(index)]_vars

(***************************************************************************)
(* C12: within a session a driver's best-lap time never gets worse, a time *)
(* of 0 standing for no record yet: a record is only replaced by a smaller *)
(* real one; and a reported lap time of 0 leaves the driver's record, time *)
(* and sectors, as it was.                                                 *)
(***************************************************************************)
C12_NotWorse(new, old) == old = 0 \/ (new # 0 /\ new <= old)

C12_ZeroKeepsRecord(index) ==
    ( /\ last_handler' = "update_lap_data"
      /\ index \in DOMAIN lap'.packet
      /\ lap'.packet[index].m_last_lap_time_in_ms = 0
      /\ PLAYERS_LIST[index].bestLapTime # 0 )
        => /\ PLAYERS_LIST'[index].bestLapTime = PLAYERS_LIST[index].bestLapTime
           /\ PLAYERS_LIST'[index].bestLapSectors = PLAYERS_LIST[index].bestLapSectors

C12_LightsOut ==
    /\ last_handler' = "update_event"
    /\ session.formationLapDone
    /\ ~session'.formationLapDone

C13_RealBests == {index \in Slots : PLAYERS_LIST[index].bestLapTime # 0}

C13_SessionRecordCorrect ==
    C13_RealBests # {}
        => /\ session.idxBestLapTime \in C13_RealBests
           /\ session.bestLapTime = PLAYERS_LIST[session.idxBestLapTime].bestLapTime
           /\ \A index \in C13_RealBests :
                session.bestLapTime <= PLAYERS_LIST[index].bestLapTime

C13_ZeroKeepsSessionRecord ==
    (\A index \in DOMAIN lap'.packet : lap'.packet[index].m_last_lap_time_in_ms = 0)
        => /\ session'.bestLapTime = session.bestLapTime
           /\ session'.idxBestLapTime = session.idxBestLapTime

C13_SessionBestLap ==
    [][(last_handler' = "update_lap_data" /\ ~escaped')
          => C13_SessionRecordCorrect' /\ C13_ZeroKeepsSessionRecord]_vars

(***************************************************************************)
(* C14: update_car_status makes exactly one queue_tyre_data call for each  *)
(* driver whose visual compound in the packet differs from the stored one  *)
(* (the stored compound is the packet's after the call, so it differs from *)
(* the one before), with the tyre wear the driver held before the call,    *)
(* and none for a driver whose compound is the stored one.                 *)
(***************************************************************************)
C14_TyreChanged(index) ==
    LET joueur == PLAYERS_LIST[index]
        mine == EventsOf(emitted', "queue_tyre_data", index)
    IN  /\ Cardinality(mine) = IF PLAYERS_LIST'[index].tyres # joueur.tyres THEN 1 ELSE 0
        /\ \A k \in mine :
             /\ emitted'[k].data.wear_rl = joueur.tyre_wear[1]
             /\ emitted'[k].data.wear_rr = joueur.tyre_wear[2]
             /\ emitted'[k].data.wear_fl = joueur.tyre_wear[3]
             /\ emitted'[k].data.wear_fr = joueur.tyre_wear[4]

C14_OneTyreChangedPerChange ==
    [][last_handler' = "update_car_status" => \A index \in Slots : C14_TyreChanged(index)]_vars

(***************************************************************************)
(* C15: update_car_damage makes a queue_damage_event call for a driver     *)
(* only with a total damage at least 2 above the total of the driver's     *)
(* last event (0 before the first); a total of 11 after an event of total  *)
(* 10 brings no call.                                                      *)
(***************************************************************************)
C15_EventOnlyOnRise ==
    [][last_handler' = "update_car_damage"
          => \A index \in Slots :
               \A k \in EventsOf(emitted', "queue_damage_event", index) :
                 PayloadTotal(emitted'[k].data) - event_total[index] >= 2]_vars

\* The total of a driver held by the model after the last car-damage packet.
StoredTotal(joueur) ==
    joueur.frontLeftWingDamage + joueur.frontRightWingDamage + joueur.rearWingDamage
    + joueur.floorDamage + joueur.diffuserDamage + joueur.sidepodDamage

\* A driver whose last event had total 10 was reported a total of 11, and
\* no call was made for the driver.
C15_Witness ==
    /\ last_handler = "update_car_damage"
    /\ \E index \in Slots :
         /\ event_total[index] = 10
         /\ StoredTotal(PLAYERS_LIST[index]) = 11
         /\ EventsOf(emitted, "queue_damage_event", index) = {}

(***************************************************************************)
(* C16: whenever a car-damage packet reports for a driver a total at least *)
(* 2 above the total of the driver's last event, update_car_damage makes   *)
(* exactly one queue_damage_event call for the driver, and the deltas it   *)
(* carries add up to that rise.                                            *)
(***************************************************************************)
C16_EventOnRise(index) ==
    LET rise == StoredTotal(PLAYERS_LIST'[index]) - event_total[index]
        mine == EventsOf(emitted', "queue_damage_event", index)
    IN  rise >= 2
          => /\ Cardinality(mine) = 1
             /\ \A k \in mine :
                  emitted'[k].data.front_left_wing_delta
                  + emitted'[k].data.front_right_wing_delta
                  + emitted'[k].data.rear_wing_delta = rise

C16_OneEventPerRise ==
    [][last_handler' = "update_car_damage" => \A index \in Slots : C16_EventOnRise(index)]_vars

(***************************************************************************)
(* C17: update_session calls create_session, once, with the track and the  *)
(* total laps of the packet, exactly when the packet's track id or session *)
(* type differs from the one the Session holds (after the call it holds    *)
(* the packet's), the first packet included; a packet repeating the held   *)
(* pair brings no call.                                                    *)
(***************************************************************************)
C17_Rollover ==
    \/ session'.track # session.track
    \/ session'.Session # session.Session

C17_SessionCreated ==
    LET mine == EventsOf(emitted', "create_session", -1)
    IN  /\ Cardinality(mine) = IF C17_Rollover THEN 1 ELSE 0
        /\ \A k \in mine :
             /\ emitted'[k].data.track_id = session'.track
             /\ emitted'[k].data.total_laps = session'.nbLaps

C17_SessionCreatedOnRollover ==
    [][last_handler' = "update_session" => C17_SessionCreated]_vars

(***************************************************************************)
(* C18: no packet makes a handler raise: update_event given a vehicle      *)
(* index past the driver slots, and update_lap_data given an array holding *)
(* fewer cars, return normally, and update_lap_data has stored the lap     *)
(* time and the position of every car the array does hold.                 *)
(***************************************************************************)
C18_OthersUpdated ==
    last_handler' = "update_lap_data"
        => \A index \in Slots \cap DOMAIN lap'.packet :
             /\ PLAYERS_LIST'[index].lastLapTime =
                    lap'.packet[index].m_last_lap_time_in_ms
             /\ PLAYERS_LIST'[index].position = lap'.packet[index].m_car_position

C18_CorruptSlotNeverAborts ==
    [][~escaped' /\ C18_OthersUpdated]_vars

(***************************************************************************)
(* C19  The lap table's order.                                             *)
(***************************************************************************)
\* In list, every slot at position 0 comes after every slot at another position.
C19_ZeroLast(list, players) ==
    \A a, b \in 1..Len(list) :
        (players[list[a]].position = 0 /\ players[list[b]].position # 0) => b < a

\* C19: in the order sorted(PLAYERS_LIST) gives the lap table, every slot
\* whose position is 0 comes after every slot whose position is not 0,
\* whatever the positions of the slots.
C19_ZeroPositionSortsLast ==
    table_fresh => C19_ZeroLast(sorted_players_list, PLAYERS_LIST)

(***************************************************************************)
(* C20  The packet reception monitor.                                      *)
(***************************************************************************)
\* C20: the counters are snapshotted and reset once per second whether or
\* not packets arrive: once a snapshot was taken, the last one is never
\* older than two seconds.
C20_SnapshotEverySecond ==
    last_update # 0 => now <= last_update + 2 * TicksPerSecond

(***************************************************************************)
(* C21  Stopping the socket receiver.                                      *)
(***************************************************************************)
\* C21: once SocketThread.stop() has returned, no further packet is read
\* from the listener and none is delivered to update_table.
C21_NothingAfterStop ==
    [][socket_stop = "returned" => (received' = received /\ signals' = signals)]_vars

(***************************************************************************)
(* C22  The lap ordinal of a driver's events.                              *)
(***************************************************************************)
\* C22: the lap number of each event a handler hands to the writer for a
\* driver is not less than the lap number of the event handed for that
\* driver before it.
C22_LapOrdinalNeverDecreases ==
    [][\A k \in DOMAIN emitted' :
          (emitted'[k].driver_index \in Slots /\ ~emitted'[k].raised)
              => emitted'[k].lap_number >= event_lap[emitted'[k].driver_index]]_vars

(***************************************************************************)
(* C23  Packets of no known type.                                          *)
(***************************************************************************)
\* C23: dispatching a packet whose type id is none of 0..15 raises no
\* exception.
C23_UnknownIdRaisesNothing == dispatch_error = "none"

(***************************************************************************)
(* C24.  On a session rollover, update_session seeing another track id or  *)
(* session type than the held session, the lap and sector timers and the   *)
(* best lap of every driver slot are cleared, every other field of every   *)
(* slot is left as it was, and the weather sample list of the session is   *)
(* the list of samples of a session packet.                                *)
(***************************************************************************)
C24_Cleared(joueur) ==
    [joueur EXCEPT !.lastLapSectors = <<0, 0, 0>>,
                   !.bestLapSectors = <<0, 0, 0>>,
                   !.lastLapTime = 0,
                   !.currentSectors = <<0, 0, 0>>,
                   !.bestLapTime = 0]

C24_Rollover ==
    /\ handled' = handled + 1
    /\ last_handler' = "update_session"
    /\ session'.track # session.track \/ session'.Session # session.Session

C24_RolloverClearsResetFields ==
    [][C24_Rollover =>
          /\ \A index \in Slots : PLAYERS_LIST'[index] = C24_Cleared(PLAYERS_LIST[index])
          /\ \E packet \in SessionPackets :
                session'.weatherList = packet.m_weather_forecast_samples]_vars

(***************************************************************************)
(* C25.  Whatever start() and stop() calls were made, at most one thread   *)
(* is in _worker_loop, taking items off the queue.                         *)
(***************************************************************************)
C25_OneWorker ==
    Cardinality({w \in WorkerIds : workers[w].pc = "loop"}) <= 1

(***************************************************************************)
(* The aggregator on a writer that holds a session: create_session called  *)
(* on the writer, session packets and car-damage packets.                  *)
(***************************************************************************)
TagNext ==
    \/ CreateSession
    \/ UpdateSession
    \/ UpdateGradualDamage

SpecTag == Init /\ [][TagNext]_vars

(***************************************************************************)
(* C26.  An event put on the queue carries the session id the writer holds *)
(* at that moment and keeps it while it waits, and an event that the call  *)
(* of update_session that detects a rollover puts on the queue does not    *)
(* carry the id the writer held for the previous session.                  *)
(***************************************************************************)
C26_Enqueued ==
    {k \in DOMAIN write_queue' : k > Len(write_queue)}

C26_TaggedAtEnqueue ==
    /\ \A k \in DOMAIN write_queue :
          k \in DOMAIN write_queue' => write_queue'[k] = write_queue[k]
    /\ \A k \in C26_Enqueued : write_queue'[k].data.session_id = current_session_id'

C26_RolloverLeavesPreviousId ==
    C24_Rollover =>
        \A k \in C26_Enqueued : write_queue'[k].data.session_id # current_session_id

C26_TaggedWithCurrentSession ==
    [][C26_TaggedAtEnqueue /\ C26_RolloverLeavesPreviousId]_vars

(***************************************************************************)
(* Recording and replaying.  TelemetryRecorder appends one record          *)
(*     [timestamp, 8 bytes] [length, 4 bytes] [data]                       *)
(* per datagram to its file; TelemetryPlayer.play_once and                 *)
(* PlaybackThread.play_once read the file record by record and send the    *)
(* data of each.  A timestamp is held as the 64-bit pattern of its double, *)
(* which struct.pack('<d') writes low byte first.  The sleep between two   *)
(* sends (the delay computed from the timestamps) changes nothing but the  *)
(* time of the send and is left out.                                       *)
(***************************************************************************)
MaxRecords == 2
    \* datagrams recorded in one behaviour
MaxDatagramLen == 2
    \* bytes of the longest datagram (recvfrom takes up to 2048)

DataBytes == {0, 7}

RecordedDatagrams == UNION {[1..n -> DataBytes] : n \in 0..MaxDatagramLen}

\* time.time() - self.start_time at the n-th datagram, as a bit pattern
Timestamp(n) == 258 * n

\* struct.pack('<I', n) for width 4, the bytes of struct.pack('<d', x) for width 8
RECURSIVE LittleEndian(_, _)
LittleEndian(n, width) ==
    IF width = 0 THEN <<>> ELSE <<n % 256>> \o LittleEndian(n \div 256, width - 1)

\* struct.unpack('<I', bytes)[0], struct.unpack('<d', bytes)[0]
RECURSIVE FromLittleEndian(_)
FromLittleEndian(bytes) ==
    IF bytes = <<>> THEN 0 ELSE Head(bytes) + 256 * FromLittleEndian(Tail(bytes))

\* The three writes of lines 64-66
Record(timestamp, data) ==
    LittleEndian(timestamp, 8) \o LittleEndian(Len(data), 4) \o data

\* recvfrom returns a datagram and the record is written (lines 57-68)
RecordDatagram ==
    /\ recorder_pc = "recording"
    /\ Len(recorded) < MaxRecords
    /\ \E data \in RecordedDatagrams :
         /\ recording' = recording \o Record(Timestamp(Len(recorded)), data)
         /\ recorded' = Append(recorded, data)
    /\ UNCHANGED <<wvars, avars, uvars, rvars, dvars, ivars, recorder_pc, player, playback>>

\* The recorder ends (KeyboardInterrupt, line 81, or the process killed) and
\* the file is closed: between two records, or with the first `cut` bytes
\* only of a last record in the file.
RecorderStop ==
    /\ recorder_pc = "recording"
    /\ \E data \in RecordedDatagrams :
         \E cut \in 0..(Len(Record(Timestamp(Len(recorded)), data)) - 1) :
             recording' = recording
                              \o SubSeq(Record(Timestamp(Len(recorded)), data), 1, cut)
    /\ recorder_pc' = "stopped"
    /\ UNCHANGED <<wvars, avars, uvars, rvars, dvars, ivars, recorded, player, playback>>

\* f.read(n) at offset f: up to n bytes, fewer at the end of the file
Read(bytes, f, n) ==
    IF f >= Len(bytes)
    THEN <<>>
    ELSE SubSeq(bytes, f + 1, IF f + n <= Len(bytes) THEN f + n ELSE Len(bytes))

NoRecord == [ok |-> FALSE, packet_data |-> <<>>, f |-> 0]

\* The part of a record read: the three reads with a short data read taken
\* for the packet.
ReadRecordShort(bytes, f) ==
    IF Len(Read(bytes, f, 8)) < 8 \/ Len(Read(bytes, f + 8, 4)) < 4
    THEN NoRecord
    ELSE [ok |-> TRUE,
          packet_data |-> Read(bytes, f + 12, FromLittleEndian(Read(bytes, f + 8, 4))),
          f |-> f + 12 + FromLittleEndian(Read(bytes, f + 8, 4))]

\* One record read at offset f (telemetry_player.py lines 82-98, the same
\* statements as PlaybackThread.py lines 80-96): each of the three reads
\* coming back short ends the pass.
ReadRecord(bytes, f) ==
    IF Len(Read(bytes, f, 8)) < 8 \/ Len(Read(bytes, f + 8, 4)) < 4
    THEN NoRecord
    ELSE IF Len(Read(bytes, f + 12, FromLittleEndian(Read(bytes, f + 8, 4))))
                < FromLittleEndian(Read(bytes, f + 8, 4))
    THEN NoRecord
    ELSE [ok |-> TRUE,
          packet_data |-> Read(bytes, f + 12, FromLittleEndian(Read(bytes, f + 8, 4))),
          f |-> f + 12 + FromLittleEndian(Read(bytes, f + 8, 4))]

\* TelemetryPlayer.play_once is called on the closed recording
PlayOnce ==
    /\ recorder_pc = "stopped"
    /\ player.pc = "idle"
    /\ player' = [player EXCEPT !.pc = "read"]
    /\ UNCHANGED <<wvars, avars, uvars, rvars, dvars, ivars, recording, recorded,
                   recorder_pc, playback>>

\* One turn of its loop (lines 80-109): a record read and sent, or the
\* break and "return packets_sent".
PlayRecord ==
    /\ player.pc = "read"
    /\ \E record \in {ReadRecord(recording, player.f)} :
         player' = IF record.ok
                   THEN [player EXCEPT !.f = record.f,
                                       !.sent = Append(@, record.packet_data),
                                       !.packets_sent = @ + 1]
                   ELSE [player EXCEPT !.pc = "returned"]
    /\ UNCHANGED <<wvars, avars, uvars, rvars, dvars, ivars, recording, recorded,
                   recorder_pc, playback>>

\* PlaybackThread.run calls play_once (line 42)
PlaybackPlayOnce ==
    /\ recorder_pc = "stopped"
    /\ playback.pc = "idle"
    /\ playback' = [playback EXCEPT !.pc = "loop"]
    /\ UNCHANGED <<wvars, avars, uvars, rvars, dvars, ivars, recording, recorded,
                   recorder_pc, player>>

\* Lines 71-96: the loop test, the wait while paused, and a record read.
\* While paused and running the thread stays in the wait of line 73.
PlaybackRead ==
    /\ playback.pc = "loop"
    /\ playback.running => ~playback.paused
    /\ \E record \in {ReadRecord(recording, playback.f)} :
         playback' = IF ~playback.running \/ ~record.ok
                     THEN [playback EXCEPT !.pc = "returned"]
                     ELSE [playback EXCEPT !.pc = "send",
                                           !.f = record.f,
                                           !.packet_data = record.packet_data]
    /\ UNCHANGED <<wvars, avars, uvars, rvars, dvars, ivars, recording, recorded,
                   recorder_pc, player>>

\* Lines 98-108: after the sleep, the record is sent if still running.
PlaybackSend ==
    /\ playback.pc = "send"
    /\ playback' = IF playback.running
                   THEN [playback EXCEPT !.pc = "loop",
                                         !.sent = Append(@, playback.packet_data),
                                         !.packets_sent = @ + 1]
                   ELSE [playback EXCEPT !.pc = "loop"]
    /\ UNCHANGED <<wvars, avars, uvars, rvars, dvars, ivars, recording, recorded,
                   recorder_pc, player>>

\* pause(), called from the window's thread
Pause ==
    /\ playback.pc # "idle"
    /\ ~playback.paused
    /\ playback' = [playback EXCEPT !.paused = TRUE]
    /\ UNCHANGED <<wvars, avars, uvars, rvars, dvars, ivars, recording, recorded,
                   recorder_pc, player>>

\* resume()
Resume ==
    /\ playback.paused
    /\ playback' = [playback EXCEPT !.paused = FALSE]
    /\ UNCHANGED <<wvars, avars, uvars, rvars, dvars, ivars, recording, recorded,
                   recorder_pc, player>>

\* stop(): running = False
PlaybackStop ==
    /\ playback.pc # "idle"
    /\ playback.running
    /\ playback' = [playback EXCEPT !.running = FALSE]
    /\ UNCHANGED <<wvars, avars, uvars, rvars, dvars, ivars, recording, recorded,
                   recorder_pc, player>>

ReplayNext ==
    \/ RecordDatagram
    \/ RecorderStop
    \/ PlayOnce
    \/ PlayRecord
    \/ PlaybackPlayOnce
    \/ PlaybackRead
    \/ PlaybackSend
    \/ Pause
    \/ Resume
    \/ PlaybackStop

SpecReplay == Init /\ [][ReplayNext]_vars

(***************************************************************************)
(* C27.  While the playback is paused the thread sends no datagram.        *)
(***************************************************************************)
C27_NothingSentWhilePaused ==
    [][playback.paused => playback'.sent = playback.sent]_vars

(***************************************************************************)
(* C28.  A pass over a recording that has run to its end has sent the      *)
(* datagrams the recorder wrote as whole records, each as it was received  *)
(* and in the order of the file, and the count it returns is their number; *)
(* the bytes of a cut last record are not sent.  This holds of             *)
(* TelemetryPlayer.play_once and of a PlaybackThread.play_once that was    *)
(* not stopped.                                                            *)
(***************************************************************************)
C28_RoundTrip ==
    /\ player.pc = "returned"
          => player.sent = recorded /\ player.packets_sent = Len(recorded)
    /\ playback.pc = "returned" /\ playback.running
          => playback.sent = recorded /\ playback.packets_sent = Len(recorded)

\* Both passes have ended on the cut last record of a recording of two
\* different datagrams, one of them empty.
C28_Witness ==
    /\ player.pc = "returned"
    /\ playback.pc = "returned"
    /\ playback.running
    /\ Len(recorded) = 2
    /\ recorded[1] # recorded[2]
    /\ \E k \in 1..2 : recorded[k] = <<>>
    /\ player.f < Len(recording)
    /\ player.sent = recorded
    /\ playback.sent = recorded

(***************************************************************************)
(* C29.  update_event called with a lights-out event (LGOT) resets every   *)
(* driver slot (Player.reset) when start lights (STLG with 2 lights or     *)
(* more) were received since the previous lights-out, and changes no       *)
(* driver slot when they were not; session.formationLapDone is false after *)
(* the call in both cases.                                                 *)
(***************************************************************************)
C29_LightsOut ==
    /\ handled' = handled + 1
    /\ last_handler' = "update_event"
    /\ lights'.code = "LGOT"

C29_ResetOnlyAfterStartLights ==
    [][C29_LightsOut =>
          /\ IF lights.since
             THEN \A index \in Slots : PLAYERS_LIST'[index] = reset(PLAYERS_LIST[index])
             ELSE PLAYERS_LIST' = PLAYERS_LIST
          /\ ~session'.formationLapDone]_vars

\* Lights out after a timed lap and start lights: the slots are reset.
C29_Witness ==
    /\ handled = 3
    /\ last_handler = "update_event"
    /\ lights.code = "LGOT"
    /\ \A index \in Slots :
          /\ ~PLAYERS_LIST[index].S200_reached
          /\ PLAYERS_LIST[index].bestLapTime = 0
    /\ ~session.formationLapDone
    /\ session.idxBestLapTime # -1

(***************************************************************************)
(* CSVImporter.import_lap_csv on the writer: the session of the import is  *)
(* committed, then each parsed row is handed to telemetry_writer.queue_lap *)
(* and counted.                                                            *)
(***************************************************************************)
MaxRows == 2
    \* rows of the CSV file that parse

\* Lines 76-92: the SessionModel row is committed, its primary key is the
\* import's session_id, and imported_records is set to 0.
ImportBegin ==
    /\ import_session_id = None
    /\ sessions_created <= MaxSessions
    /\ sessions_created' = sessions_created + 1
    /\ import_session_id' = sessions_created + 1
    /\ imported_records' = 0
    /\ UNCHANGED <<avars, uvars, rvars, dvars, pvars, maxsize, batch_size, write_queue,
                   running, worker_thread, current_session_id, workers, stop_pc, sink,
                   handed, lost, dequeued, calls, warnings, report>>

\* Lines 94-105 for one row: queue_lap (data_writer.py lines 133-143) with a
\* lap_data whose 'session_id' is the import's, which takes the place of
\* the writer's in the payload, and "imported_records += 1".
ImportRow ==
    /\ import_session_id # None
    /\ imported_records < MaxRows
    /\ IF current_session_id = None
       THEN /\ calls' = Append(calls, "nosession")
            /\ UNCHANGED <<write_queue, warnings>>
       ELSE QueueWrite("lap", [session_id |-> import_session_id, id |-> NumCalls + 1])
    /\ imported_records' = imported_records + 1
    /\ UNCHANGED <<avars, uvars, rvars, dvars, pvars, maxsize, batch_size, running,
                   worker_thread, current_session_id, workers, stop_pc, sessions_created,
                   sink, handed, lost, dequeued, report, import_session_id>>

ImportNext ==
    \/ CreateSession
    \/ Start
    \/ StopBegin
    \/ StopReturn
    \/ \E w \in WorkerIds : Worker(w)
    \/ Tick
    \/ ImportBegin
    \/ ImportRow

SpecImport == Init /\ [][ImportNext]_vars

(***************************************************************************)
(* C30.  Every row import_lap_csv has counted in imported_records was      *)
(* accepted by the writer's queue, and what is on the queue carries the    *)
(* session id of the import.                                               *)
(***************************************************************************)
C30_CountedRowsQueued ==
    /\ imported_records <= Cardinality(Accepted)
    /\ \A k \in DOMAIN write_queue :
          write_queue[k].data.session_id = import_session_id
=============================================================================
